---- MODULE Spec2Model ----
(***************************************************************************)
(* Campaign message dispatch engine of the marketing backend               *)
(* (src/marketing/services.py): CampaignOrchestrator (build_messages,      *)
(* send_pending_messages, refresh_metrics, retry and fallback policy),     *)
(* CampaignAnalyticsService.update_campaign_metrics,                       *)
(* CampaignOptimizationService.generate_variants and                       *)
(* CampaignExecutionService.dispatch, over the records of                  *)
(* src/marketing/models.py.  One campaign is modelled; message rows are    *)
(* kept in creation order, a row's id being its position in the table.     *)
(***************************************************************************)
EXTENDS Integers, Sequences, FiniteSets, Bags, TLC

\* ------------------------------------------------------------------ bounds
\* largest value of settings.CAMPAIGN_MAX_RETRIES explored
MaxRetries == 2
\* number of 'Messages prepared' audit rows after which no further build runs
MaxPrepared == 1

\* -------------------------------------------------------- program constants
\* parameters of CampaignOrchestrator._personalize besides self (template, customer)
PersonalizeParams == 2
\* positional arguments build_messages passes to it (base_content, customer, channel)
PersonalizeArgs == 3

\* CampaignMessage.Channel values that occur in the model
Channels == {"email", "whatsapp", "sms"}
\* key order of the campaign's channels map, as campaign.channels.items() yields it
ChannelOrder == <<"email", "whatsapp", "sms">>
\* customers of the campaign's owner: c1 has a phone number, c2 has none
Customers == {"c1", "c2"}
CustomerOrder == <<"c1", "c2">>
\* values of Customer.preferred_channels explored (a channel outside the
\* campaign map and a repeated channel included)
PrefChoices == {<<>>, <<"sms", "twitter", "sms", "email">>}

PendingStatuses == {"pending", "scheduled"}
MessageStatuses == {"pending", "scheduled", "sending", "sent", "failed", "opened", "clicked"}
CampaignStatuses == {"draft", "scheduled", "running", "completed", "failed"}
TemplateKeys == {"email_body", "whatsapp_message", "sms_text", "social_post"}

VARIABLES
    campaign,       \* Campaign row: status, channels, metrics
    customers,      \* Customer rows: phone_number (non-empty?), preferred_channels
    maxRetries,     \* settings.CAMPAIGN_MAX_RETRIES, the default of max_attempts
    messages,       \* CampaignMessage table in created_at order
    logs,           \* CampaignLog table, append-only: a bag of rows
    pc,             \* position of the send_pending_messages call in progress
    batch,          \* ids the call selected and has not yet processed
    counts,         \* the call's counts dict {sent, failed}
    providerCalls,  \* <<customer, channel>> pairs handed to a provider
    notifications,  \* number of Notification rows created
    variants,       \* CampaignVariant rows of the campaign, by label
    call,           \* the pipeline run in progress, if the send was started by one
    result,         \* outcome of the last completed call
    limiter,        \* one RateLimiter: budget, window start, counter, admissions
    now,            \* time.monotonic(), in seconds
    limiters,       \* the email RateLimiter of each CampaignOrchestrator constructed
    workers,        \* send_pending_messages calls running side by side: position,
                    \* rows fetched and not yet processed, attempts as fetched, counts
    dispatched,     \* per message, the dispatch_message calls such calls made for it
    campaigns,      \* the Campaign rows of one user, as the automated senders see them
    automation      \* the automated sender's loop: campaigns selected, left, dispatched

vars == <<campaign, customers, maxRetries, messages, logs, pc, batch, counts,
          providerCalls, notifications, variants, call, result, limiter, now,
          limiters, workers, dispatched, campaigns, automation>>

\* the limiter and the clock, which the operations on campaigns leave alone
limiterVars == <<limiter, now, limiters>>

\* the calls running side by side, which a call running alone leaves alone
workerVars == <<workers, dispatched>>

\* the automated senders' state, which the operations on one campaign leave
\* alone
automationVars == <<campaigns, automation>>

\* ----------------------------------------------------------------- helpers
Contains(s, x) == \E i \in 1..Len(s) : s[i] = x

Ids == 1..Len(messages)

RECURSIVE SeqOfSet(_)
SeqOfSet(S) ==
    IF S = {} THEN <<>>
    ELSE LET x == CHOOSE y \in S : \A z \in S : y <= z
         IN <<x>> \o SeqOfSet(S \ {x})

CountStatus(st) == Cardinality({i \in Ids : messages[i].status = st})

\* ------------------------------------------------------ channel resolution
TemplateKey(channel) ==
    CASE channel = "email" -> "email_body"
      [] channel = "whatsapp" -> "whatsapp_message"
      [] channel = "sms" -> "sms_text"
      [] channel \in {"facebook", "instagram", "twitter"} -> "social_post"
      [] OTHER -> "email_body"

\* a resolution that keeps channels the campaign does not enable
IsEnabledAlways(enabled, ch) == TRUE
\* `if ch not in enabled: continue`, negated
IsEnabled(enabled, ch) == Contains(enabled, ch)

\* a resolution without the phone-number tests
LacksPhoneNever(ch, customer) == FALSE
\* the two phone-number tests: the channel is skipped for this customer
LacksPhone(ch, customer) ==
    \/ ch = "whatsapp" /\ ~customers[customer].phone_number
    \/ ch = "sms" /\ ~customers[customer].phone_number

RECURSIVE Dedupe(_, _, _, _, _)
Dedupe(ordered, enabled, customer, i, deduped) ==
    IF i > Len(ordered) THEN deduped
    ELSE LET ch == ordered[i]
             keep == /\ IsEnabled(enabled, ch)
                     /\ ~LacksPhone(ch, customer)
                     /\ ~Contains(deduped, ch)
         IN Dedupe(ordered, enabled, customer, i + 1,
                   IF keep THEN Append(deduped, ch) ELSE deduped)

\* a resolution in the campaign's channel order, preferences ignored
ResolveChannelsEnabledOrder(customer) ==
    LET enabled == SelectSeq(ChannelOrder, LAMBDA ch : campaign.channels[ch])
    IN Dedupe(enabled, enabled, customer, 1, <<>>)
\* _resolve_channels
ResolveChannels(customer) ==
    LET preferred == customers[customer].preferred_channels
        enabled == SelectSeq(ChannelOrder, LAMBDA ch : campaign.channels[ch])
        ordered == preferred \o SelectSeq(enabled, LAMBDA ch : ~Contains(preferred, ch))
    IN Dedupe(ordered, enabled, customer, 1, <<>>)

FallbackChannels(primary_channel, customer) ==
    SelectSeq(ResolveChannels(customer), LAMBDA ch : ch # primary_channel)

\* --------------------------------------------------------- message content
\* Customer.first_name
FirstName(customer) == IF customer = "c1" THEN "Bob" ELSE "Alice"

\* content payloads explored: a template is a sequence of text pieces and
\* {{placeholder}} tokens, the empty sequence standing for a missing key
Template(key) ==
    CASE key = "email_body" -> <<"Hi ", "{{first_name}}">>
      [] key = "whatsapp_message" -> <<"WA ", "{{coupon}}">>
      [] key = "sms_text" -> <<"SMS">>
      [] OTHER -> <<>>

\* two of the payloads by name
EmailOnly == [k \in TemplateKeys |-> IF k = "email_body" THEN Template(k) ELSE <<>>]
Full == [k \in TemplateKeys |-> Template(k)]

ContentChoices ==
    {[k \in TemplateKeys |-> IF k \in S THEN Template(k) ELSE <<>>] :
        S \in {{}, {"email_body"}, {"sms_text"},
               {"email_body", "whatsapp_message", "sms_text"}}}

\* values of Campaign.channels explored: the channels mapped to true
ChannelMapChoices ==
    {[ch \in Channels |-> ch \in S] :
        S \in {{}, {"email"}, {"whatsapp", "sms"}, {"email", "whatsapp", "sms"}}}

\* audiences (ordered customer lists) a build is called with
AudienceChoices == {<<>>, <<"c1">>, <<"c2">>, <<"c1", "c2">>}

\* the build_messages calls explored: (audience, content) pairs
BuildChoices ==
    {<<(<<>>), Full>>} \cup ({<<"c2">>, <<"c1", "c2">>} \X {EmailOnly, Full})

EmptyContent == [k \in TemplateKeys |-> <<>>]

\* a CampaignVariant as build_messages receives it (label, channel_payload);
\* NoVariant stands for variant=None, NoLabel for a null variant foreign key
NoLabel == "none"
NoVariant == [label |-> NoLabel, channel_payload |-> EmptyContent]

\* _variant_content: the variant's payload first, then the base content
VariantContent(content, template_key, variant) ==
    IF variant.label # NoLabel /\ variant.channel_payload[template_key] # <<>>
    THEN variant.channel_payload[template_key]
    ELSE content[template_key]

\* str.replace of every known {{key}} token; unknown tokens stay verbatim
Personalize(template, customer) ==
    [i \in 1..Len(template) |->
        CASE template[i] = "{{first_name}}" -> FirstName(customer)
          [] template[i] = "{{last_name}}" -> ""
          [] template[i] = "{{full_name}}" -> FirstName(customer)
          [] template[i] = "{{product_name}}" -> "product"
          [] template[i] = "{{customer_email}}" -> customer
          [] OTHER -> template[i]]

\* a call whose arguments bind
PersonalizeCallBinds == FALSE
\* the call self._personalize(base_content, customer, channel) binds
\* PersonalizeArgs positional arguments to PersonalizeParams parameters
PersonalizeCallRaises == PersonalizeArgs # PersonalizeParams

\* the defaults dict of build_messages
MessageDefaults(customer, channel, content, variant) ==
    [content |-> Personalize(VariantContent(content, TemplateKey(channel), variant), customer),
     status |-> "pending",
     fallback_channels |-> FallbackChannels(channel, customer),
     fallback_of |-> 0,
     variant |-> variant.label]

\* a new CampaignMessage row: the lookup fields, the field defaults of the
\* model (attempts 0, max_attempts the configured default) and `defaults`
NewMessage(customer, channel, defaults) ==
    [customer |-> customer, channel |-> channel,
     content |-> defaults.content, status |-> defaults.status,
     attempts |-> 0, max_attempts |-> maxRetries, last_error |-> "",
     fallback_channels |-> defaults.fallback_channels,
     fallback_of |-> defaults.fallback_of,
     variant |-> defaults.variant]

Matching(table, customer, channel) ==
    {i \in 1..Len(table) : table[i].customer = customer /\ table[i].channel = channel}

\* the fields update_or_create overwrites on an existing row
WithDefaults(row, defaults) ==
    [row EXCEPT !.content = defaults.content,
                !.status = defaults.status,
                !.fallback_channels = defaults.fallback_channels,
                !.fallback_of = defaults.fallback_of,
                !.variant = defaults.variant]

\* CampaignMessage.objects.update_or_create(campaign, customer, channel, defaults)
UpdateOrCreate(table, customer, channel, defaults) ==
    IF Matching(table, customer, channel) = {}
    THEN Append(table, NewMessage(customer, channel, defaults))
    ELSE [i \in 1..Len(table) |->
            IF table[i].customer = customer /\ table[i].channel = channel
            THEN WithDefaults(table[i], defaults) ELSE table[i]]

\* a plain create in place of get_or_create
GetOrCreateAlways(table, customer, channel, defaults) ==
    Append(table, NewMessage(customer, channel, defaults))
\* CampaignMessage.objects.get_or_create(campaign, customer, channel, defaults)
GetOrCreate(table, customer, channel, defaults) ==
    IF Matching(table, customer, channel) = {} THEN Append(table, NewMessage(customer, channel, defaults))
    ELSE table

\* the (customer, channel) pairs the two loops of build_messages reach past
\* the `if not base_content: continue` test, in iteration order
RECURSIVE ChannelPairs(_, _, _, _, _)
ChannelPairs(customer, chans, i, content, variant) ==
    IF i > Len(chans) THEN <<>>
    ELSE (IF VariantContent(content, TemplateKey(chans[i]), variant) # <<>>
          THEN <<(<<customer, chans[i]>>)>> ELSE <<>>)
         \o ChannelPairs(customer, chans, i + 1, content, variant)

RECURSIVE BuildPairs(_, _, _, _)
BuildPairs(audience, i, content, variant) ==
    IF i > Len(audience) THEN <<>>
    ELSE ChannelPairs(audience[i], ResolveChannels(audience[i]), 1, content, variant)
         \o BuildPairs(audience, i + 1, content, variant)

\* the table after update_or_create has run for every pair in order: rows
\* whose key occurs among the pairs are overwritten in place, and the keys
\* without a row are appended in the order of their first occurrence
UpsertAll(table, pairs, content, variant) ==
    LET Defaults(p) == MessageDefaults(p[1], p[2], content, variant)
        updated == [i \in 1..Len(table) |->
                      IF Contains(pairs, <<table[i].customer, table[i].channel>>)
                      THEN WithDefaults(table[i], Defaults(<<table[i].customer, table[i].channel>>))
                      ELSE table[i]]
        fresh == {k \in 1..Len(pairs) :
                    /\ Matching(table, pairs[k][1], pairs[k][2]) = {}
                    /\ \A j \in 1..(k - 1) : pairs[j] # pairs[k]}
        Created(order) == [k \in 1..Len(order) |->
                             NewMessage(pairs[order[k]][1], pairs[order[k]][2],
                                        Defaults(pairs[order[k]]))]
    IN CHOOSE t \in {updated \o Created(order) : order \in {SeqOfSet(fresh)}} : TRUE

\* build_messages' loops as a whole
Materialize(table, audience, content, variant) ==
    CHOOSE t \in {UpsertAll(table, pairs, content, variant) :
                     pairs \in {BuildPairs(audience, 1, content, variant)}} : TRUE

\* ---------------------------------------------------------------- variants
\* labels the variant generator returns (ai_engine.py: f'V{idx}')
Labels == {"V1", "V2", "V3"}

DefaultVariantMetrics == [sent |-> 0, opened |-> 0, clicked |-> 0]

\* a CampaignVariant row created by update_or_create: the model defaults
NewVariant(channel_payload) ==
    [channel_payload |-> channel_payload, metrics |-> DefaultVariantMetrics,
     is_winner |-> FALSE]

\* generate_variants: the variant table after update_or_create(campaign,
\* label, defaults={channel_payload, status}) has run for every payload
UpsertVariants(table, payloads) ==
    LET labels == {payloads[i].label : i \in 1..Len(payloads)}
        Last(l) == payloads[CHOOSE i \in 1..Len(payloads) :
                       /\ payloads[i].label = l
                       /\ \A j \in (i + 1)..Len(payloads) : payloads[j].label # l]
    IN [l \in (DOMAIN table) \cup labels |->
          IF l \notin labels THEN table[l]
          ELSE IF l \in DOMAIN table
               THEN [table[l] EXCEPT !.channel_payload = Last(l).channel_payload]
               ELSE NewVariant(Last(l).channel_payload)]

\* update_campaign_metrics, first loop: the rows of the grouped query that
\* carry a variant_id
StatsLabels(mtable) == {mtable[i].variant : i \in 1..Len(mtable)} \ {NoLabel}

VariantCount(mtable, label, st) ==
    Cardinality({i \in 1..Len(mtable) : mtable[i].variant = label /\ mtable[i].status = st})

\* the variant table after the per-row metrics updates
WithVariantMetrics(vtable, mtable) ==
    [l \in DOMAIN vtable |->
        IF l \in StatsLabels(mtable)
        THEN [vtable[l] EXCEPT !.metrics = [sent |-> VariantCount(mtable, l, "sent"),
                                            opened |-> VariantCount(mtable, l, "opened"),
                                            clicked |-> VariantCount(mtable, l, "clicked")]]
        ELSE vtable[l]]

\* (clicked, opened) of a is at least that of b, lexicographically
LexGeq(a, b) ==
    \/ a.clicked > b.clicked
    \/ a.clicked = b.clicked /\ a.opened >= b.opened

\* the ordering with the two keys swapped
FirstByOpenedClicked(vtable) ==
    {l \in DOMAIN vtable : \A k \in DOMAIN vtable :
        \/ vtable[l].metrics.opened > vtable[k].metrics.opened
        \/ /\ vtable[l].metrics.opened = vtable[k].metrics.opened
           /\ vtable[l].metrics.clicked >= vtable[k].metrics.clicked}
\* the rows order_by('-metrics__clicked', '-metrics__opened').first() may return
FirstByClickedOpened(vtable) ==
    {l \in DOMAIN vtable : \A k \in DOMAIN vtable : LexGeq(vtable[l].metrics, vtable[k].metrics)}

\* a crowning that does not clear the other flags
CrownWinnerNoClear(vtable, winner) ==
    [vtable EXCEPT ![winner].is_winner = TRUE]
\* the `if winner and not winner.is_winner` block
CrownWinner(vtable, winner) ==
    IF vtable[winner].is_winner THEN vtable
    ELSE [l \in DOMAIN vtable |-> [vtable[l] EXCEPT !.is_winner = (l = winner)]]

\* the variant tables update_campaign_metrics may leave
AggregatedVariants(vtable, mtable) ==
    LET counted == WithVariantMetrics(vtable, mtable)
    IN IF DOMAIN counted = {} THEN {counted}
       ELSE {CrownWinner(counted, winner) : winner \in FirstByClickedOpened(counted)}

\* ------------------------------------------------------------- RateLimiter
\* window of wait_for_slot, in seconds
Window == 60

\* a limiter that takes the budget as given
PerMinuteRaw(per_minute) == per_minute
\* max(per_minute, 1)
PerMinute(per_minute) == IF per_minute > 1 THEN per_minute ELSE 1

\* RateLimiter(per_minute) constructed at time t; `admitted` lists the times
\* at which wait_for_slot returned and `slept` is the length of its last sleep
NewLimiter(per_minute, t) ==
    [budget |-> per_minute, per_minute |-> PerMinute(per_minute),
     window_start |-> t, sent |-> 0, admitted |-> <<>>, slept |-> 0]

\* calls to wait_for_slot followed on one limiter
MaxAdmits == 3

\* budgets handed to the constructor, and seconds that pass between two calls
Budgets == {-1, 0, 1, 2}
Advances == {0, 1, 59, 60}

\* a sleep of a whole window whatever has elapsed
SleepForWholeWindow(t, start) == Window
\* sleep_for = window - (now - self._window_start)
SleepFor(t, start) == Window - (t - start)

\* wait_for_slot() entered at time t on the limiter l: the limiter it leaves
\* and the time at which it returns
AfterWait(l, t) ==
    LET expired == t - l.window_start >= Window
        start == IF expired THEN t ELSE l.window_start
        sent == IF expired THEN 0 ELSE l.sent
        sleep_for == SleepFor(t, start)
        wake == IF sleep_for > 0 THEN t + sleep_for ELSE t
    IN IF sent < l.per_minute
       THEN [limiter |-> [l EXCEPT !.window_start = start,
                                   !.sent = sent + 1,
                                   !.admitted = Append(@, t),
                                   !.slept = 0],
             now |-> t]
       ELSE [limiter |-> [l EXCEPT !.window_start = wake,
                                   !.sent = 1,
                                   !.admitted = Append(@, wake),
                                   !.slept = wake - t],
             now |-> wake]

\* wait_for_slot(), called d seconds after the previous call returned
WaitForSlot(d) ==
    /\ Len(limiter.admitted) < MaxAdmits
    /\ LET after == CHOOSE r \in {AfterWait(limiter, now + d)} : TRUE
       IN /\ limiter' = after.limiter
          /\ now' = after.now
    /\ UNCHANGED <<campaign, customers, maxRetries, messages, logs, pc, batch,
                   counts, providerCalls, notifications, variants, call, result,
                   limiters, workerVars, automationVars>>

\* the send_pending_messages calls that may run side by side
Workers == {1, 2}

\* a call that is not running
IdleWorker == [pc |-> "idle", batch |-> <<>>, attempts |-> <<>>,
               counts |-> [sent |-> 0, failed |-> 0]]

NoWorkers == [w \in Workers |-> IdleWorker]

\* --------------------------------------------------------------- initially
DefaultMetrics == [sent |-> 0, opened |-> 0, clicked |-> 0, revenue |-> 0]

NoResult == [op |-> "none", outcome |-> "none", sent |-> 0, failed |-> 0, created |-> 0]

NoCall == [op |-> "none", created |-> 0]

\* no campaign list, and no automated sender at work
NoCampaigns == <<>>
NoAutomation == [pc |-> "idle", queue |-> <<>>, selected |-> {}, done |-> {}, raised |-> FALSE]

\* the call has not returned yet
Running(op) == [NoResult EXCEPT !.op = op, !.outcome = "running"]

\* A draft or scheduled campaign whose message table holds the rows that the
\* upsert of build_messages writes for one customer and some content (rows
\* are durable records and outlive the process that wrote them); nothing has
\* been attempted yet.
Init ==
    /\ campaign \in [status : {"draft", "scheduled"},
                     channels : ChannelMapChoices,
                     metrics : {DefaultMetrics}]
    /\ customers \in {[c \in Customers |->
                          [phone_number |-> (c = "c1"),
                           preferred_channels |-> p]] : p \in PrefChoices}
    /\ maxRetries \in 0..MaxRetries
    /\ \E content \in ContentChoices, audience \in {<<"c1">>, <<"c2">>} :
          messages = Materialize(<<>>, audience, content, NoVariant)
    /\ logs = EmptyBag
    /\ pc = "idle"
    /\ batch = <<>>
    /\ counts = [sent |-> 0, failed |-> 0]
    /\ providerCalls = {}
    /\ notifications = 0
    /\ variants = <<>>
    /\ call = NoCall
    /\ result = NoResult
    /\ limiter = NewLimiter(1, 0)
    /\ now = 0
    /\ limiters = <<>>
    /\ workers = NoWorkers
    /\ dispatched = <<>>
    /\ campaigns = NoCampaigns
    /\ automation = NoAutomation

\* ---------------------------------------------------------- build_messages
\* a CampaignLog row: action, message foreign key (0 for none), and the
\* next_channel entry of its metadata
LogRow(action, message, next_channel) ==
    [action |-> action, message |-> message, next_channel |-> next_channel]

\* CampaignLog.objects.create(...) for each of the rows
WithLogs(table, rows) == table (+) SetToBag(rows)

PreparedLogs == CopiesIn(LogRow("Messages prepared", 0, "none"), logs)

\* One build_messages(customers=job.audience, content=job.content,
\* variant=job.variant) call on the tables in b, unless an earlier call has
\* raised: the first channel that has content reaches the _personalize
\* call, which raises before anything is written; with no such channel the
\* loops end, the audit row is written and the count is returned.
BuildOne(b, job) ==
    LET pairs == BuildPairs(job.audience, 1, job.content, job.variant)
    IN IF b.raised THEN b
       ELSE IF pairs # <<>> /\ PersonalizeCallRaises THEN [b EXCEPT !.raised = TRUE]
       ELSE [messages |-> Materialize(b.messages, job.audience, job.content, job.variant),
             logs |-> WithLogs(b.logs, {LogRow("Messages prepared", 0, "none")}),
             created |-> b.created + Len(pairs),
             raised |-> FALSE]

\* the first n build_messages calls of a pipeline run, in order
RECURSIVE RunBuilds(_, _, _)
RunBuilds(b, jobs, n) ==
    IF n = 0 THEN b
    ELSE CHOOSE r \in {BuildOne(prev, jobs[n]) : prev \in {RunBuilds(b, jobs, n - 1)}} : TRUE

BuildJob(audience, content, variant) ==
    [audience |-> audience, content |-> content, variant |-> variant]

BuildMessages(audience, content, variant) ==
    /\ pc = "idle"
    /\ PreparedLogs < MaxPrepared
    /\ LET b == BuildOne([messages |-> messages, logs |-> logs, created |-> 0, raised |-> FALSE],
                         BuildJob(audience, content, variant))
       IN /\ messages' = b.messages
          /\ logs' = b.logs
          /\ result' = [NoResult EXCEPT !.op = "build",
                          !.outcome = IF b.raised THEN "TypeError" ELSE "ok",
                          !.created = b.created]
    /\ UNCHANGED <<campaign, customers, maxRetries, pc, batch, counts,
                   providerCalls, notifications, variants, call>>

\* ---------------------------------------------------------- refresh_metrics
\* a refresh that builds the map anew from the model's defaults
RefreshedMetricsFromDefaults ==
    [DefaultMetrics EXCEPT !.sent = CountStatus("sent"),
                           !.opened = CountStatus("opened"),
                           !.clicked = CountStatus("clicked")]
\* a refresh that recounts sent only
RefreshedMetricsSentOnly == [campaign.metrics EXCEPT !.sent = CountStatus("sent")]
RefreshedMetrics ==
    [campaign.metrics EXCEPT !.sent = CountStatus("sent"),
                             !.opened = CountStatus("opened"),
                             !.clicked = CountStatus("clicked")]

RefreshMetrics ==
    /\ pc = "idle"
    /\ campaign' = [campaign EXCEPT !.metrics = RefreshedMetrics]
    /\ result' = [NoResult EXCEPT !.op = "refresh", !.outcome = "ok"]
    /\ UNCHANGED <<customers, maxRetries, messages, logs, pc, batch, counts,
                   providerCalls, notifications, variants, call>>

\* --------------------------------------------------- send_pending_messages
\* a selection that stops at the first row
SelectedInFirstOnly(table) ==
    LET all == SeqOfSet({i \in 1..Len(table) : table[i].status \in PendingStatuses})
    IN IF all = <<>> THEN all ELSE <<Head(all)>>
\* a selection ordered newest first
SelectedInNewestFirst(table) ==
    LET all == SeqOfSet({i \in 1..Len(table) : table[i].status \in PendingStatuses})
    IN [k \in 1..Len(all) |-> all[Len(all) + 1 - k]]
\* a selection without the status filter
SelectedInAll(table) == SeqOfSet(1..Len(table))
\* the queryset: rows in a pending status, oldest first
SelectedIn(table) ==
    SeqOfSet({i \in 1..Len(table) : table[i].status \in PendingStatuses})

Selected == SelectedIn(messages)

\* a send that ignores the campaign's status
DraftGuardOff(force) == FALSE
\* `if not force and self.campaign.status == Campaign.Status.DRAFT`
DraftGuard(force) == ~force /\ campaign.status = "draft"

\* entry of send_pending_messages(force): the draft guard, the selection of
\* the batch, and the transition of the campaign to running
SendStart(force) ==
    /\ pc = "idle"
    /\ IF DraftGuard(force)
       THEN /\ result' = [NoResult EXCEPT !.op = "send", !.outcome = "ValueError"]
            /\ UNCHANGED <<campaign, pc, batch, counts>>
       ELSE IF Selected = <<>>
       THEN /\ result' = [NoResult EXCEPT !.op = "send", !.outcome = "ok"]
            /\ UNCHANGED <<campaign, pc, batch, counts>>
       ELSE /\ campaign' = [campaign EXCEPT !.status = "running"]
            /\ pc' = "loop"
            /\ batch' = Selected
            /\ counts' = [sent |-> 0, failed |-> 0]
            /\ result' = Running("send")
    /\ UNCHANGED <<customers, maxRetries, messages, logs, providerCalls, notifications,
                   variants, call>>

\* head of the loop body: status sending, attempts incremented, saved
SendMark ==
    /\ pc = "loop"
    /\ batch # <<>>
    /\ messages' = [messages EXCEPT ![Head(batch)].status = "sending",
                                    ![Head(batch)].attempts = @ + 1]
    /\ pc' = "dispatch"
    /\ UNCHANGED <<campaign, customers, maxRetries, logs, batch, counts,
                   providerCalls, notifications, variants, call, result>>

\* outcomes of BulkMessenger.dispatch_message: "sent" (DispatchResult),
\* "provider_error" (the provider call raised), "rejected" (raised before
\* any provider call: provider not configured, or no phone number)
DispatchOutcomes(message) ==
    CASE message.channel = "email" -> {"sent", "provider_error"}
      [] message.channel = "whatsapp" ->
            IF customers[message.customer].phone_number
            THEN {"sent", "provider_error", "rejected"} ELSE {"rejected"}
      [] message.channel = "sms" ->
            IF customers[message.customer].phone_number
            THEN {"sent", "rejected"} ELSE {"rejected"}
      [] OTHER -> {"sent"}

\* the comparison with <= in place of <
CanRetryInclusive(message) == message.attempts <= message.max_attempts
\* can_retry of _handle_failure
CanRetry(message) == message.attempts < message.max_attempts

\* a spawn that hands the whole list on instead of fallback_channels[1:]
QueueFallbackSameList(table, id) ==
    LET message == table[id]
    IN IF message.fallback_channels = <<>> THEN table
       ELSE GetOrCreate(table, message.customer, Head(message.fallback_channels),
                        [content |-> message.content,
                         status |-> "pending",
                         fallback_channels |-> message.fallback_channels,
                         fallback_of |-> id,
                         variant |-> message.variant])
\* _queue_fallback: the table after the get_or_create on the first fallback channel
QueueFallback(table, id) ==
    LET message == table[id]
        fallback_channels == message.fallback_channels
    IN IF fallback_channels = <<>> THEN table
       ELSE GetOrCreate(table, message.customer, Head(fallback_channels),
                        [content |-> message.content,
                         status |-> "pending",
                         fallback_channels |-> Tail(fallback_channels),
                         fallback_of |-> id,
                         variant |-> message.variant])

\* the audit rows _queue_fallback appends
FallbackLogs(table, id) ==
    IF table[id].fallback_channels = <<>> THEN {}
    ELSE {LogRow("Fallback scheduled", id, Head(table[id].fallback_channels))}

\* _handle_failure: the message table afterwards
HandleFailure(table, id) ==
    LET can_retry == CanRetry(table[id])
        saved == [table EXCEPT ![id].last_error = "error",
                               ![id].status = IF can_retry THEN "pending" ELSE "failed"]
    IN IF can_retry THEN saved ELSE QueueFallback(saved, id)

\* _handle_failure: the audit rows it appends
FailureLogs(table, id) ==
    {LogRow("Message failed", id, "none")}
    \cup (IF CanRetry(table[id]) THEN {} ELSE FallbackLogs(table, id))

\* _handle_success: the message table afterwards
HandleSuccess(table, id) ==
    [table EXCEPT ![id].status = "sent", ![id].last_error = ""]

\* a loop that queries the pending rows again after every message
RestOfBatchRequeried(rest, table) == SelectedIn(table)
\* `for message in queryset`: the rows are fetched once, when the loop
\* starts, and what the loop body writes does not change what is left
RestOfBatch(rest, table) == rest

\* rest of the loop body: dispatch, then _handle_success or _handle_failure
SendOutcome ==
    /\ pc = "dispatch"
    /\ LET id == Head(batch)
       IN \E outcome \in DispatchOutcomes(messages[id]) :
            /\ providerCalls' =
                  IF outcome = "rejected" THEN providerCalls
                  ELSE providerCalls \cup {<<messages[id].customer, messages[id].channel>>}
            /\ IF outcome = "sent"
               THEN /\ messages' = HandleSuccess(messages, id)
                    /\ logs' = WithLogs(logs, {LogRow("Message sent", id, "none")})
                    /\ counts' = [counts EXCEPT !.sent = @ + 1]
               ELSE /\ messages' = HandleFailure(messages, id)
                    /\ logs' = WithLogs(logs, FailureLogs(messages, id))
                    /\ counts' = [counts EXCEPT !.failed = @ + 1]
    /\ batch' = RestOfBatch(Tail(batch), messages')
    /\ pc' = "loop"
    /\ UNCHANGED <<campaign, customers, maxRetries, notifications, variants, call, result>>

\* a finalization that disregards the failures counted
FinalStatusCompleted == "completed"
\* the status _finalize is called with
FinalStatus == IF counts.failed > 0 THEN "failed" ELSE "completed"

\* a pass that finalizes whatever is left
FinalizesAlways(remaining) == TRUE
\* a pass that never finalizes
FinalizesNever(remaining) == FALSE
\* `if remaining == 0`
Finalizes(remaining) == remaining = 0

\* after the loop: refresh_metrics, then _finalize when nothing is left
\* pending or scheduled; notify_campaign_status may raise out of _finalize
\* after the status is saved.  A send started by the pipeline returns to it.
SendFinish ==
    /\ pc = "loop"
    /\ batch = <<>>
    /\ LET remaining == Cardinality({i \in Ids : messages[i].status \in PendingStatuses})
           returned == [NoResult EXCEPT !.op = "send", !.outcome = "ok",
                                        !.sent = counts.sent, !.failed = counts.failed]
       IN \E notified \in BOOLEAN :
            /\ ~Finalizes(remaining) => notified
            /\ campaign' = [campaign EXCEPT
                              !.metrics = RefreshedMetrics,
                              !.status = IF Finalizes(remaining) THEN FinalStatus ELSE @]
            /\ notifications' = IF Finalizes(remaining) /\ notified THEN notifications + 1
                                ELSE notifications
            /\ IF ~notified
               THEN /\ result' = [returned EXCEPT !.op = IF call.op = "exec" THEN "exec" ELSE "send",
                                                  !.outcome = "NotifyError",
                                                  !.sent = 0, !.failed = 0]
                    /\ pc' = "idle"
                    /\ call' = NoCall
               ELSE IF call.op = "exec"
               THEN /\ pc' = "aggregate"
                    /\ UNCHANGED <<result, call>>
               ELSE /\ result' = returned
                    /\ pc' = "idle"
                    /\ UNCHANGED call
    /\ UNCHANGED <<customers, maxRetries, messages, logs, batch, counts, providerCalls,
                   variants>>

\* ------------------------------------------- CampaignExecutionService.dispatch
\* settings.A_B_TEST_VARIANTS
A_B_TEST_VARIANTS == 3

\* what generate_variants gets from the generator when it does not fail
\* (a failure leaves variants = []): A_B_TEST_VARIANTS payloads
VariantPayloads ==
    [i \in 1..A_B_TEST_VARIANTS |->
        [label |-> (<<"V1", "V2", "V3">>)[i], channel_payload |-> EmailOnly]]

\* the (content, variant payloads) pairs a pipeline run works with
ExecChoices == {<<EmailOnly, (<<>>)>>, <<Full, (<<>>)>>, <<Full, VariantPayloads>>}

\* a bucketing that hands every variant the whole audience
BucketWhole(audience, idx, bucket_count) == audience
\* customers[idx::bucket_count] with idx counted from 0
Bucket(audience, idx, bucket_count) ==
    LET at == SeqOfSet({j \in 1..Len(audience) : (j - 1) % bucket_count = idx})
    IN [k \in 1..Len(at) |-> audience[at[k]]]

\* the build_messages calls dispatch makes: one per non-empty bucket, or one
\* for the whole audience with the base content
BuildJobs(audience, content, payloads) ==
    IF payloads # <<>>
    THEN SelectSeq([i \in 1..Len(payloads) |->
                      BuildJob(Bucket(audience, i - 1, Len(payloads)),
                               payloads[i].channel_payload, payloads[i])],
                   LAMBDA job : job.audience # <<>>)
    ELSE <<BuildJob(audience, content, NoVariant)>>

\* a dispatch that accepts an empty audience
RejectsProductOnly(has_product, supplier_ok, audience) == ~has_product \/ ~supplier_ok
\* the three rejections of dispatch: no linked product, the content
\* supplier failed, no customer matches
Rejects(has_product, supplier_ok, audience) ==
    ~has_product \/ ~supplier_ok \/ audience = <<>>

\* the (product linked, supplier succeeded, audience) inputs of a rejected run
RejectChoices ==
    {<<FALSE, TRUE, CustomerOrder>>, <<TRUE, FALSE, CustomerOrder>>, <<TRUE, TRUE, (<<>>)>>}

\* audiences a dispatch resolves
ExecAudiences == {<<>>, CustomerOrder}

\* dispatch rejected before anything is written: no linked product, the
\* content supplier failed, or no customer matches
ExecReject(has_product, supplier_ok, audience) ==
    /\ pc = "idle"
    /\ Rejects(has_product, supplier_ok, audience)
    /\ result' = [NoResult EXCEPT !.op = "exec", !.outcome = "CampaignExecutionError"]
    /\ UNCHANGED <<campaign, customers, maxRetries, messages, logs, pc, batch, counts,
                   providerCalls, notifications, variants, call>>

\* dispatch from generate_variants up to the entry of send_pending_messages
ExecRun(force, audience, content, payloads) ==
    /\ pc = "idle"
    /\ PreparedLogs < MaxPrepared
    /\ ~Rejects(TRUE, TRUE, audience)
    /\ LET generated == UpsertVariants(variants, payloads)
           jobs == BuildJobs(audience, content, payloads)
           b == RunBuilds([messages |-> messages, logs |-> logs, created |-> 0,
                           raised |-> FALSE], jobs, Len(jobs))
           failed(outcome) ==
               /\ result' = [NoResult EXCEPT !.op = "exec", !.outcome = outcome]
               /\ variants' = generated
               /\ UNCHANGED <<campaign, pc, batch, counts, call>>
       IN /\ messages' = b.messages
          /\ logs' = b.logs
          /\ IF b.raised THEN failed("TypeError")
             ELSE IF DraftGuard(force) THEN failed("CampaignExecutionError")
             ELSE IF SelectedIn(b.messages) = <<>>
             THEN /\ variants' \in AggregatedVariants(generated, b.messages)
                  /\ result' = [NoResult EXCEPT !.op = "exec", !.outcome = "ok",
                                                !.created = b.created]
                  /\ UNCHANGED <<campaign, pc, batch, counts, call>>
             ELSE /\ variants' = generated
                  /\ campaign' = [campaign EXCEPT !.status = "running"]
                  /\ pc' = "loop"
                  /\ batch' = SelectedIn(b.messages)
                  /\ counts' = [sent |-> 0, failed |-> 0]
                  /\ call' = [op |-> "exec", created |-> b.created]
                  /\ result' = Running("exec")
    /\ UNCHANGED <<customers, maxRetries, providerCalls, notifications>>

\* dispatch(force) of a campaign up to the entry of the send loop
Dispatch(has_product, supplier_ok, force, audience, content, payloads) ==
    \/ ExecReject(has_product, supplier_ok, audience)
    \/ has_product /\ supplier_ok /\ ExecRun(force, audience, content, payloads)

\* dispatch after send_pending_messages has returned: update_campaign_metrics
\* and the summary
ExecFinish ==
    /\ pc = "aggregate"
    /\ variants' \in AggregatedVariants(variants, messages)
    /\ result' = [NoResult EXCEPT !.op = "exec", !.outcome = "ok", !.created = call.created,
                                  !.sent = counts.sent, !.failed = counts.failed]
    /\ pc' = "idle"
    /\ call' = NoCall
    /\ UNCHANGED <<campaign, customers, maxRetries, messages, logs, batch, counts,
                   providerCalls, notifications>>

\* ------------------------------------------------------- delivery feedback
\* a provider reports that a delivered message was opened
TrackOpened(id) ==
    /\ messages[id].status = "sent"
    /\ messages' = [messages EXCEPT ![id].status = "opened"]
    /\ UNCHANGED <<campaign, customers, maxRetries, logs, pc, batch, counts,
                   providerCalls, notifications, variants, call, result>>

\* a provider reports that a link of a delivered message was clicked
TrackClicked(id) ==
    /\ messages[id].status \in {"sent", "opened"}
    /\ messages' = [messages EXCEPT ![id].status = "clicked"]
    /\ UNCHANGED <<campaign, customers, maxRetries, logs, pc, batch, counts,
                   providerCalls, notifications, variants, call, result>>

\* --------------------------------------------------------- the dispatch engine
Next ==
    \/ /\ \E job \in BuildChoices : BuildMessages(job[1], job[2], NoVariant)
       /\ UNCHANGED <<limiterVars, workerVars, automationVars>>
    \/ /\ RefreshMetrics
       /\ UNCHANGED <<limiterVars, workerVars, automationVars>>
    \/ /\ \E force \in BOOLEAN : SendStart(force)
       /\ UNCHANGED <<limiterVars, workerVars, automationVars>>
    \/ /\ SendMark
       /\ UNCHANGED <<limiterVars, workerVars, automationVars>>
    \/ /\ SendOutcome
       /\ UNCHANGED <<limiterVars, workerVars, automationVars>>
    \/ /\ SendFinish
       /\ UNCHANGED <<limiterVars, workerVars, automationVars>>
    \/ /\ \E choice \in RejectChoices : ExecReject(choice[1], choice[2], choice[3])
       /\ UNCHANGED <<limiterVars, workerVars, automationVars>>
    \/ /\ \E force \in BOOLEAN, job \in ExecChoices, audience \in ExecAudiences :
             ExecRun(force, audience, job[1], job[2])
       /\ UNCHANGED <<limiterVars, workerVars, automationVars>>
    \/ /\ ExecFinish
       /\ UNCHANGED <<limiterVars, workerVars, automationVars>>

Spec == Init /\ [][Next]_vars

\* ------------------------------------------ sending with delivery feedback
\* a scheduled campaign with every channel enabled and one message per
\* channel for the customer who has a phone number
InitFeedback ==
    /\ Init
    /\ campaign.status = "scheduled"
    /\ \A ch \in Channels : campaign.channels[ch]
    /\ \A c \in Customers : customers[c].preferred_channels = <<>>
    /\ maxRetries = 1
    /\ messages = Materialize(<<>>, <<"c1">>, Full, NoVariant)

NextFeedback ==
    \/ /\ RefreshMetrics
       /\ UNCHANGED <<limiterVars, workerVars, automationVars>>
    \/ /\ \E force \in BOOLEAN : SendStart(force)
       /\ UNCHANGED <<limiterVars, workerVars, automationVars>>
    \/ /\ SendMark
       /\ UNCHANGED <<limiterVars, workerVars, automationVars>>
    \/ /\ SendOutcome
       /\ UNCHANGED <<limiterVars, workerVars, automationVars>>
    \/ /\ SendFinish
       /\ UNCHANGED <<limiterVars, workerVars, automationVars>>
    \/ /\ \E id \in Ids : TrackOpened(id)
       /\ UNCHANGED <<limiterVars, workerVars, automationVars>>
    \/ /\ \E id \in Ids : TrackClicked(id)
       /\ UNCHANGED <<limiterVars, workerVars, automationVars>>

SpecFeedback == InitFeedback /\ [][NextFeedback]_vars

\* ------------------------------------------------- variants and aggregation
\* CampaignOptimizationService.generate_variants called on its own
GenerateVariants(payloads) ==
    /\ pc = "idle"
    /\ variants' = UpsertVariants(variants, payloads)
    /\ UNCHANGED <<campaign, customers, maxRetries, messages, logs, pc, batch, counts,
                   providerCalls, notifications, call, result>>

\* CampaignAnalyticsService.update_campaign_metrics called on its own
UpdateCampaignMetrics ==
    /\ pc = "idle"
    /\ variants' \in AggregatedVariants(variants, messages)
    /\ UNCHANGED <<campaign, customers, maxRetries, messages, logs, pc, batch, counts,
                   providerCalls, notifications, call, result>>

\* variant of each message row, in table order, for the two campaigns explored
VariantAssignments == {<<"V1", "V1", "V1", "V2">>, <<"V1", "V3", "V3", "V2">>}

\* A completed campaign whose four messages (three for c1, one for c2) were
\* all delivered at the first attempt and belong to the variants `assigned`
\* names; the variants exist with their defaults and none has been crowned.
InitAgg ==
    /\ customers = [c \in Customers |-> [phone_number |-> (c = "c1"),
                                         preferred_channels |-> <<>>]]
    /\ maxRetries = 1
    /\ \E assigned \in VariantAssignments :
          LET built == [DefaultMetrics EXCEPT !.sent = Len(assigned)]
              labels == {assigned[i] : i \in 1..Len(assigned)}
          IN /\ campaign = [status |-> "completed",
                            channels |-> [ch \in Channels |-> TRUE],
                            metrics |-> built]
             /\ messages = [i \in 1..Len(assigned) |->
                              [Materialize(<<>>, CustomerOrder, Full, NoVariant)[i]
                                 EXCEPT !.status = "sent", !.attempts = 1,
                                        !.variant = assigned[i]]]
             /\ variants = UpsertVariants(<<>>, SubSeq(VariantPayloads, 1, Cardinality(labels)))
    /\ logs = SetToBag({LogRow("Message sent", i, "none") : i \in 1..Len(messages)})
    /\ pc = "idle"
    /\ batch = <<>>
    /\ counts = [sent |-> 0, failed |-> 0]
    /\ providerCalls = {<<messages[i].customer, messages[i].channel>> : i \in 1..Len(messages)}
    /\ notifications = 1
    /\ call = NoCall
    /\ result = NoResult
    /\ limiter = NewLimiter(1, 0)
    /\ now = 0
    /\ limiters = <<>>
    /\ workers = NoWorkers
    /\ dispatched = <<>>
    /\ campaigns = NoCampaigns
    /\ automation = NoAutomation

NextAgg ==
    \/ /\ GenerateVariants(VariantPayloads)
       /\ UNCHANGED <<limiterVars, workerVars, automationVars>>
    \/ /\ UpdateCampaignMetrics
       /\ UNCHANGED <<limiterVars, workerVars, automationVars>>
    \/ /\ \E id \in Ids : TrackOpened(id)
       /\ UNCHANGED <<limiterVars, workerVars, automationVars>>
    \/ /\ \E id \in Ids : TrackClicked(id)
       /\ UNCHANGED <<limiterVars, workerVars, automationVars>>

SpecAgg == InitAgg /\ [][NextAgg]_vars

\* ------------------------------------------------ calls running side by side
\* The steps of send_pending_messages for a call w that shares the tables
\* with another call.  Each step is one database statement together with
\* the code around it; the code takes no lock and starts no transaction.

\* entry of the call: the selected rows are fetched into objects of the
\* call's own, and the campaign is saved as running
WorkerStart(w) ==
    /\ workers[w].pc = "idle"
    /\ campaign.status # "draft"
    /\ Selected # <<>>
    /\ campaign' = [campaign EXCEPT !.status = "running"]
    /\ workers' = [workers EXCEPT ![w] =
                      [pc |-> "loop", batch |-> Selected,
                       attempts |-> [k \in 1..Len(Selected) |-> messages[Selected[k]].attempts],
                       counts |-> [sent |-> 0, failed |-> 0]]]
    /\ UNCHANGED <<customers, maxRetries, messages, logs, pc, batch, counts,
                   providerCalls, notifications, variants, call, result,
                   limiterVars, automationVars, dispatched>>

\* head of the loop body: the call's object gets status sending and its own
\* attempts plus one, and save(update_fields=(status, attempts)) writes both
WorkerMark(w) ==
    /\ workers[w].pc = "loop"
    /\ workers[w].batch # <<>>
    /\ messages' = [messages EXCEPT
                       ![Head(workers[w].batch)].status = "sending",
                       ![Head(workers[w].batch)].attempts = Head(workers[w].attempts) + 1]
    /\ workers' = [workers EXCEPT ![w].pc = "dispatch",
                                  ![w].attempts = <<Head(@) + 1>> \o Tail(@)]
    /\ UNCHANGED <<campaign, customers, maxRetries, logs, pc, batch, counts,
                   providerCalls, notifications, variants, call, result,
                   limiterVars, automationVars, dispatched>>

\* rest of the loop body: dispatch_message, then _handle_success or
\* _handle_failure, which decides can_retry on the call's own object and
\* saves status and last_error
WorkerOutcome(w) ==
    /\ workers[w].pc = "dispatch"
    /\ LET id == Head(workers[w].batch)
           mine == [messages[id] EXCEPT !.attempts = Head(workers[w].attempts)]
           can_retry == CanRetry(mine)
           saved == [messages EXCEPT ![id].last_error = "error",
                                     ![id].status = IF can_retry THEN "pending" ELSE "failed"]
       IN \E outcome \in DispatchOutcomes(messages[id]) :
            /\ providerCalls' =
                  IF outcome = "rejected" THEN providerCalls
                  ELSE providerCalls \cup {<<messages[id].customer, messages[id].channel>>}
            /\ IF outcome = "sent"
               THEN /\ messages' = HandleSuccess(messages, id)
                    /\ logs' = WithLogs(logs, {LogRow("Message sent", id, "none")})
                    /\ workers' = [workers EXCEPT ![w].pc = "loop",
                                                  ![w].batch = Tail(@),
                                                  ![w].attempts = Tail(@),
                                                  ![w].counts.sent = @ + 1]
               ELSE /\ messages' = IF can_retry THEN saved ELSE QueueFallback(saved, id)
                    /\ logs' = WithLogs(logs, {LogRow("Message failed", id, "none")}
                                              \cup (IF can_retry THEN {}
                                                    ELSE FallbackLogs(messages, id)))
                    /\ workers' = [workers EXCEPT ![w].pc = "loop",
                                                  ![w].batch = Tail(@),
                                                  ![w].attempts = Tail(@),
                                                  ![w].counts.failed = @ + 1]
            /\ dispatched' = [i \in 1..Len(messages') |->
                                 (IF i <= Len(dispatched) THEN dispatched[i] ELSE 0)
                                 + (IF i = id THEN 1 ELSE 0)]
    /\ UNCHANGED <<campaign, customers, maxRetries, pc, batch, counts,
                   notifications, variants, call, result, limiterVars, automationVars>>

\* after the loop: refresh_metrics, then _finalize when no row is pending
\* or scheduled; the notification may or may not get written
WorkerFinish(w) ==
    /\ workers[w].pc = "loop"
    /\ workers[w].batch = <<>>
    /\ LET remaining == Cardinality({i \in Ids : messages[i].status \in PendingStatuses})
           status == IF workers[w].counts.failed > 0 THEN "failed" ELSE "completed"
       IN /\ campaign' = [campaign EXCEPT
                            !.metrics = RefreshedMetrics,
                            !.status = IF Finalizes(remaining) THEN status ELSE @]
          /\ notifications' \in IF Finalizes(remaining)
                                THEN {notifications, notifications + 1}
                                ELSE {notifications}
    /\ workers' = [workers EXCEPT ![w] = IdleWorker]
    /\ UNCHANGED <<customers, maxRetries, messages, logs, pc, batch, counts,
                   providerCalls, variants, call, result, limiterVars, automationVars, dispatched>>

\* a scheduled campaign with email enabled and one pending email for each
\* of the two customers; nothing has been dispatched
InitConcurrent ==
    /\ campaign = [status |-> "scheduled",
                   channels |-> [ch \in Channels |-> ch = "email"],
                   metrics |-> DefaultMetrics]
    /\ customers = [c \in Customers |-> [phone_number |-> (c = "c1"),
                                         preferred_channels |-> <<>>]]
    /\ maxRetries \in 1..MaxRetries
    /\ messages = Materialize(<<>>, CustomerOrder, EmailOnly, NoVariant)
    /\ logs = EmptyBag
    /\ pc = "idle"
    /\ batch = <<>>
    /\ counts = [sent |-> 0, failed |-> 0]
    /\ providerCalls = {}
    /\ notifications = 0
    /\ variants = <<>>
    /\ call = NoCall
    /\ result = NoResult
    /\ limiter = NewLimiter(1, 0)
    /\ now = 0
    /\ limiters = <<>>
    /\ workers = NoWorkers
    /\ dispatched = [i \in 1..Len(messages) |-> 0]
    /\ campaigns = NoCampaigns
    /\ automation = NoAutomation

NextConcurrent ==
    \/ \E w \in Workers : WorkerStart(w)
    \/ \E w \in Workers : WorkerMark(w)
    \/ \E w \in Workers : WorkerOutcome(w)
    \/ \E w \in Workers : WorkerFinish(w)

SpecConcurrent == InitConcurrent /\ [][NextConcurrent]_vars

\* ------------------------------------------- fallback spawns side by side
\* The calls of the section above with _queue_fallback followed statement
\* by statement: get_or_create is a SELECT and, when that finds no row, an
\* INSERT; CampaignMessage declares no unique constraint on (campaign,
\* customer, channel), so the INSERT cannot fail on a row written meanwhile.

\* the defaults of the get_or_create in _queue_fallback(table[id])
SpawnDefaults(table, id) ==
    [content |-> table[id].content,
     status |-> "pending",
     fallback_channels |-> Tail(table[id].fallback_channels),
     fallback_of |-> id,
     variant |-> table[id].variant]

\* the loop body past the dispatch where it does not reach the get_or_create
WorkerOutcomeNoSpawn(w) ==
    /\ WorkerOutcome(w)
    /\ \/ messages'[Head(workers[w].batch)].status # "failed"
       \/ messages[Head(workers[w].batch)].fallback_channels = <<>>

\* dispatch_message raised and the attempts are used up: _handle_failure
\* saves the message as failed, writes its audit row and enters
\* _queue_fallback with a list that is not empty
WorkerFail(w) ==
    /\ workers[w].pc = "dispatch"
    /\ LET id == Head(workers[w].batch)
           mine == [messages[id] EXCEPT !.attempts = Head(workers[w].attempts)]
       IN /\ ~CanRetry(mine)
          /\ messages[id].fallback_channels # <<>>
          /\ \E outcome \in DispatchOutcomes(messages[id]) \ {"sent"} :
                providerCalls' =
                    IF outcome = "rejected" THEN providerCalls
                    ELSE providerCalls \cup {<<messages[id].customer, messages[id].channel>>}
          /\ messages' = [messages EXCEPT ![id].last_error = "error", ![id].status = "failed"]
          /\ logs' = WithLogs(logs, {LogRow("Message failed", id, "none")})
          /\ dispatched' = [dispatched EXCEPT ![id] = @ + 1]
    /\ workers' = [workers EXCEPT ![w].pc = "fallback", ![w].counts.failed = @ + 1]
    /\ UNCHANGED <<campaign, customers, maxRetries, pc, batch, counts,
                   notifications, variants, call, result, limiterVars, automationVars>>

\* get_or_create, first statement: the lookup by customer and channel
WorkerLookup(w) ==
    /\ workers[w].pc = "fallback"
    /\ LET message == messages[Head(workers[w].batch)]
           found == Matching(messages, message.customer, Head(message.fallback_channels)) # {}
       IN workers' = [workers EXCEPT ![w].pc = IF found THEN "found" ELSE "create"]
    /\ UNCHANGED <<campaign, customers, maxRetries, messages, logs, pc, batch, counts,
                   providerCalls, notifications, variants, call, result,
                   limiterVars, automationVars, dispatched>>

\* get_or_create, second statement (the insert, when the lookup found no
\* row), and the 'Fallback scheduled' audit row; the loop goes on
WorkerCreate(w) ==
    /\ workers[w].pc \in {"found", "create"}
    /\ LET id == Head(workers[w].batch)
           message == messages[id]
       IN /\ messages' =
                IF workers[w].pc = "found" THEN messages
                ELSE Append(messages, NewMessage(message.customer,
                                                 Head(message.fallback_channels),
                                                 SpawnDefaults(messages, id)))
          /\ logs' = WithLogs(logs, FallbackLogs(messages, id))
    /\ dispatched' = [i \in 1..Len(messages') |->
                         IF i <= Len(dispatched) THEN dispatched[i] ELSE 0]
    /\ workers' = [workers EXCEPT ![w].pc = "loop", ![w].batch = Tail(@),
                                  ![w].attempts = Tail(@)]
    /\ UNCHANGED <<campaign, customers, maxRetries, pc, batch, counts, providerCalls,
                   notifications, variants, call, result, limiterVars, automationVars>>

\* a scheduled campaign with every channel enabled; the customer with a
\* phone number prefers SMS and has the two rows a build writes for content
\* without an SMS text: email and WhatsApp, each with SMS as first fallback
InitUpsert ==
    /\ campaign = [status |-> "scheduled",
                   channels |-> [ch \in Channels |-> ch \in {"email", "whatsapp", "sms"}],
                   metrics |-> DefaultMetrics]
    /\ customers = [c \in Customers |->
                      [phone_number |-> (c = "c1"),
                       preferred_channels |-> <<"sms", "twitter", "sms", "email">>]]
    /\ maxRetries = 1
    /\ messages = Materialize(<<>>, <<"c1">>,
                              [k \in TemplateKeys |->
                                  IF k \in {"email_body", "whatsapp_message"}
                                  THEN Template(k) ELSE <<>>],
                              NoVariant)
    /\ logs = EmptyBag
    /\ pc = "idle"
    /\ batch = <<>>
    /\ counts = [sent |-> 0, failed |-> 0]
    /\ providerCalls = {}
    /\ notifications = 0
    /\ variants = <<>>
    /\ call = NoCall
    /\ result = NoResult
    /\ limiter = NewLimiter(1, 0)
    /\ now = 0
    /\ limiters = <<>>
    /\ workers = NoWorkers
    /\ dispatched = [i \in 1..Len(messages) |-> 0]
    /\ campaigns = NoCampaigns
    /\ automation = NoAutomation

NextUpsert ==
    \/ \E w \in Workers : WorkerStart(w)
    \/ \E w \in Workers : WorkerMark(w)
    \/ \E w \in Workers : WorkerOutcomeNoSpawn(w)
    \/ \E w \in Workers : WorkerFail(w)
    \/ \E w \in Workers : WorkerLookup(w)
    \/ \E w \in Workers : WorkerCreate(w)
    \/ \E w \in Workers : WorkerFinish(w)

SpecUpsert == InitUpsert /\ [][NextUpsert]_vars

\* ---------------------------------------------- aggregation after a deletion
\* DELETE on CustomerDetailView: the customer's messages go with the customer
\* (on_delete=CASCADE), audit rows that named them keep a null message
\* (on_delete=SET_NULL); the rows left are renumbered in their order
DeleteCustomer(c) ==
    /\ pc = "idle"
    /\ \E i \in Ids : messages[i].customer = c
    /\ LET kept == {i \in Ids : messages[i].customer # c}
           Position(i) == IF i \in kept THEN Cardinality({j \in kept : j <= i}) ELSE 0
           Relinked(row) == [row EXCEPT !.message = Position(@)]
       IN /\ messages' = [k \in 1..Cardinality(kept) |->
                             [messages[SeqOfSet(kept)[k]] EXCEPT !.fallback_of = Position(@)]]
          /\ logs' = BagOfAll(Relinked, logs)
    /\ UNCHANGED <<campaign, customers, maxRetries, pc, batch, counts, providerCalls,
                   notifications, variants, call, result>>

NextDeletion ==
    \/ /\ UpdateCampaignMetrics
       /\ UNCHANGED <<limiterVars, workerVars, automationVars>>
    \/ /\ \E id \in Ids : TrackOpened(id)
       /\ UNCHANGED <<limiterVars, workerVars, automationVars>>
    \/ /\ \E id \in Ids : TrackClicked(id)
       /\ UNCHANGED <<limiterVars, workerVars, automationVars>>
    \/ /\ \E c \in Customers : DeleteCustomer(c)
       /\ UNCHANGED <<limiterVars, workerVars, automationVars>>

SpecDeletion == InitAgg /\ [][NextDeletion]_vars

\* ------------------------------------------------ metrics with other entries
\* values of the revenue entry of Campaign.metrics, which no code here writes
Revenues == {0, 7}

\* the campaign of InitFeedback with a revenue entry of either value
InitMetrics ==
    /\ campaign \in {[status |-> "scheduled",
                       channels |-> [ch \in Channels |-> TRUE],
                       metrics |-> [DefaultMetrics EXCEPT !.revenue = r]] : r \in Revenues}
    /\ customers = [c \in Customers |-> [phone_number |-> (c = "c1"),
                                         preferred_channels |-> <<>>]]
    /\ maxRetries = 1
    /\ messages = Materialize(<<>>, <<"c1">>, Full, NoVariant)
    /\ logs = EmptyBag
    /\ pc = "idle"
    /\ batch = <<>>
    /\ counts = [sent |-> 0, failed |-> 0]
    /\ providerCalls = {}
    /\ notifications = 0
    /\ variants = <<>>
    /\ call = NoCall
    /\ result = NoResult
    /\ limiter = NewLimiter(1, 0)
    /\ now = 0
    /\ limiters = <<>>
    /\ workers = NoWorkers
    /\ dispatched = <<>>
    /\ campaigns = NoCampaigns
    /\ automation = NoAutomation

SpecMetrics == InitMetrics /\ [][NextFeedback]_vars

\* ------------------------------------------- sending with failing row writes
\* The loop body past the dispatch when the write that records the outcome
\* raises (message.save in _handle_success or _handle_failure: a database
\* error): both handlers run outside the try block, so the exception leaves
\* send_pending_messages with the row as the head of the loop body saved it.
RecordRaises ==
    /\ pc = "dispatch"
    /\ LET id == Head(batch)
       IN \E outcome \in DispatchOutcomes(messages[id]) :
            providerCalls' =
                IF outcome = "rejected" THEN providerCalls
                ELSE providerCalls \cup {<<messages[id].customer, messages[id].channel>>}
    /\ pc' = "idle"
    /\ batch' = <<>>
    /\ result' = [NoResult EXCEPT !.op = "send", !.outcome = "DatabaseError"]
    /\ UNCHANGED <<campaign, customers, maxRetries, messages, logs, counts,
                   notifications, variants, call>>

NextAbort ==
    \/ /\ \E force \in BOOLEAN : SendStart(force)
       /\ UNCHANGED <<limiterVars, workerVars, automationVars>>
    \/ /\ SendMark
       /\ UNCHANGED <<limiterVars, workerVars, automationVars>>
    \/ /\ SendOutcome
       /\ UNCHANGED <<limiterVars, workerVars, automationVars>>
    \/ /\ RecordRaises
       /\ UNCHANGED <<limiterVars, workerVars, automationVars>>
    \/ /\ SendFinish
       /\ UNCHANGED <<limiterVars, workerVars, automationVars>>

SpecAbort == Init /\ [][NextAbort]_vars

\* a limiter of any budget, just constructed, and no campaign activity
InitRate ==
    /\ limiter \in {NewLimiter(per_minute, 0) : per_minute \in Budgets}
    /\ now = 0
    /\ limiters = <<>>
    /\ workers = NoWorkers
    /\ dispatched = <<>>
    /\ campaigns = NoCampaigns
    /\ automation = NoAutomation
    /\ campaign = [status |-> "scheduled",
                   channels |-> [ch \in Channels |-> TRUE],
                   metrics |-> DefaultMetrics]
    /\ customers = [c \in Customers |-> [phone_number |-> (c = "c1"),
                                         preferred_channels |-> <<>>]]
    /\ maxRetries = 1
    /\ messages = <<>>
    /\ logs = EmptyBag
    /\ pc = "idle"
    /\ batch = <<>>
    /\ counts = [sent |-> 0, failed |-> 0]
    /\ providerCalls = {}
    /\ notifications = 0
    /\ variants = <<>>
    /\ call = NoCall
    /\ result = NoResult

NextRate == \E d \in Advances : WaitForSlot(d)

SpecRate == InitRate /\ [][NextRate]_vars

\* ------------------------------------------- one channel, several campaigns
\* CampaignOrchestrator instances followed
MaxOrchestrators == 2

\* seconds between two sends on the channel
SendGaps == {0, 60}

\* sends the limiters have admitted so far, all orchestrators together
TotalAdmitted(ls, n) ==
    Cardinality({p \in (1..n) \X (1..MaxAdmits + 1) :
                    p[1] <= Len(ls) /\ p[2] <= Len(ls[p[1]].admitted)})

\* CampaignOrchestrator(campaign=...), as dispatch constructs one per call:
\* its BulkMessenger() builds a RateLimiter of its own from the setting
NewOrchestrator ==
    /\ Len(limiters) < MaxOrchestrators
    /\ limiters' = Append(limiters, NewLimiter(limiter.budget, now))
    /\ UNCHANGED <<campaign, customers, maxRetries, messages, logs, pc, batch,
                   counts, providerCalls, notifications, variants, call, result,
                   limiter, now, workerVars, automationVars>>

\* _send_email of orchestrator o, d seconds after the last send returned:
\* wait_for_slot on the limiter of o's own messenger
SendEmail(o, d) ==
    /\ TotalAdmitted(limiters, Len(limiters)) < MaxAdmits
    /\ LET after == CHOOSE r \in {AfterWait(limiters[o], now + d)} : TRUE
       IN /\ limiters' = [limiters EXCEPT ![o] = after.limiter]
          /\ now' = after.now
    /\ UNCHANGED <<campaign, customers, maxRetries, messages, logs, pc, batch,
                   counts, providerCalls, notifications, variants, call, result,
                   limiter, workerVars, automationVars>>

\* BULK_EMAIL_RATE_LIMIT_PER_MIN is limiter.budget; no orchestrator yet
InitShared == InitRate

NextShared ==
    \/ NewOrchestrator
    \/ \E o \in 1..Len(limiters), d \in SendGaps : SendEmail(o, d)

SpecShared == InitShared /\ [][NextShared]_vars

\* ---------------------------------------------------------------- properties
PhoneChannels == {"whatsapp", "sms"}

Keys(table) == {<<table[i].customer, table[i].channel>> : i \in 1..Len(table)}

Winners(vtable) == {l \in DOMAIN vtable : vtable[l].is_winner}

\* C1 (retry bound): no message has more attempts than its max_attempts,
\* in any state the build, send and pipeline calls reach.
C1_RetryBound ==
    \A i \in Ids : messages[i].attempts <= messages[i].max_attempts

\* C2 (retry policy): a dispatch that raises leaves the message pending when
\* its incremented attempts are below max_attempts and failed otherwise; no
\* other row changes while a pass runs, so that is the status the message
\* ends the pass in; a failed message stays failed and is never selected
\* again; and an exhaustion adds at most one row and one 'Fallback
\* scheduled' entry.
C2_RetryPolicy ==
    [][/\ (pc = "dispatch" /\ messages'[Head(batch)].status # "sent") =>
            LET id == Head(batch)
                exhausted == messages[id].attempts >= messages[id].max_attempts
            IN /\ messages'[id].status = IF exhausted THEN "failed" ELSE "pending"
               /\ Len(messages') <= Len(messages) + 1
               /\ Len(messages') > Len(messages) => exhausted
               /\ BagCardinality(logs') <= BagCardinality(logs) + 2
               /\ BagCardinality(logs') = BagCardinality(logs) + 2 => exhausted
       /\ pc \in {"loop", "dispatch"} =>
            \A i \in Ids : (batch = <<>> \/ i # Head(batch)) => messages'[i] = messages[i]
       /\ \A i \in Ids : messages[i].status = "failed" =>
            /\ messages'[i].status = "failed"
            /\ messages'[i].attempts = messages[i].attempts
            /\ ~Contains(batch', i)]_vars

\* a message was retried once, then exhausted, and its fallback was spawned
C2_Witness ==
    \E i \in Ids, j \in Ids :
        /\ messages[i].status = "failed"
        /\ messages[i].attempts = 2
        /\ messages[i].max_attempts = 2
        /\ messages[j].fallback_of = i
        /\ pc = "idle"

\* C3 (fallback chain termination): a spawned message carries a strictly
\* shorter fallback_channels list than the message it replaces, nothing is
\* scheduled for a message whose list is empty, and a customer never has
\* more spawned messages than resolved channels.
C3_FallbackChainShrinks ==
    /\ \A i \in Ids : messages[i].fallback_of # 0 =>
          Len(messages[i].fallback_channels)
              < Len(messages[messages[i].fallback_of].fallback_channels)
    /\ \A r \in BagToSet(logs) : r.action = "Fallback scheduled" =>
          messages[r.message].fallback_channels # <<>>
    /\ \A c \in Customers :
          Cardinality({i \in Ids : messages[i].customer = c /\ messages[i].fallback_of # 0})
              <= Len(ResolveChannels(c))

\* a chain of two spawned messages whose last link failed with nothing left
C3_Witness ==
    \E i \in Ids, j \in Ids :
        /\ messages[i].fallback_of # 0
        /\ messages[j].fallback_of = i
        /\ messages[j].status = "failed"
        /\ messages[j].fallback_channels = <<>>

\* C4 (idempotent build): two build_messages calls in sequence with the same
\* customers, content and variant both return, return the same count, and
\* leave the (customer, channel) rows a single call leaves, none twice.
C4_IdempotentBuild ==
    pc = "idle" =>
        \A job \in BuildChoices :
            LET start == [messages |-> messages, logs |-> logs, created |-> 0, raised |-> FALSE]
                first == BuildOne(start, BuildJob(job[1], job[2], NoVariant))
                second == BuildOne([first EXCEPT !.created = 0],
                                   BuildJob(job[1], job[2], NoVariant))
            IN /\ ~first.raised
               /\ ~second.raised
               /\ first.created = second.created
               /\ Keys(second.messages) = Keys(first.messages)
               /\ Cardinality(Keys(second.messages)) = Len(second.messages)

\* C5 (message uniqueness): no two rows of the campaign share a customer
\* and a channel.
C5_MessageUniqueness ==
    \A i \in Ids, j \in Ids :
        (messages[i].customer = messages[j].customer
            /\ messages[i].channel = messages[j].channel) => i = j

\* a message exhausted its attempts while its first fallback channel already
\* had a row of its own
C5_Witness ==
    \E i \in Ids, j \in Ids :
        /\ messages[i].status = "failed"
        /\ messages[i].fallback_channels # <<>>
        /\ messages[j].customer = messages[i].customer
        /\ messages[j].channel = Head(messages[i].fallback_channels)
        /\ messages[j].fallback_of # i

\* C6 (channel eligibility): a customer without a phone number resolves to
\* no WhatsApp or SMS channel, has no WhatsApp or SMS row, and no WhatsApp
\* or SMS provider call is made for them.
C6_ChannelEligibility ==
    /\ \A c \in Customers : ~customers[c].phone_number =>
          /\ \A k \in 1..Len(ResolveChannels(c)) : ResolveChannels(c)[k] \notin PhoneChannels
          /\ \A ch \in Channels : \A k \in 1..Len(FallbackChannels(ch, c)) :
                FallbackChannels(ch, c)[k] \notin PhoneChannels
    /\ \A i \in Ids : messages[i].channel \in PhoneChannels =>
          customers[messages[i].customer].phone_number
    /\ \A call_ \in providerCalls : call_[2] \in PhoneChannels =>
          customers[call_[1]].phone_number

\* the customer without a phone prefers SMS, SMS is enabled, and their email
\* message was handed to the provider and exhausted its attempts
C6_Witness ==
    \E i \in Ids :
        /\ messages[i].customer = "c2"
        /\ messages[i].status = "failed"
        /\ campaign.channels["sms"]
        /\ Contains(customers["c2"].preferred_channels, "sms")
        /\ <<"c2", "email">> \in providerCalls

\* C7 (enabled channels): every row, built or spawned, is on a channel the
\* campaign's map enables, and channel resolution yields enabled channels
\* only, whatever the preference list holds.
C7_EnabledChannels ==
    /\ \A i \in Ids : messages[i].channel \in {ch \in Channels : campaign.channels[ch]}
    /\ \A c \in Customers : \A k \in 1..Len(ResolveChannels(c)) :
          ResolveChannels(c)[k] \in {ch \in Channels : campaign.channels[ch]}

\* a message was spawned by a fallback for a customer whose preference list
\* names a disabled channel and a channel outside the campaign's map
C7_Witness ==
    \E i \in Ids :
        /\ messages[i].fallback_of # 0
        /\ Contains(customers[messages[i].customer].preferred_channels, "email")
        /\ Contains(customers[messages[i].customer].preferred_channels, "twitter")
        /\ ~campaign.channels["email"]

\* C8 (metrics consistency): right after refresh_metrics, on its own or at
\* the end of a send pass, the stored sent, opened and clicked metrics equal
\* the numbers of messages in those statuses.
C8_MetricsConsistency ==
    [][(RefreshMetrics \/ SendFinish) =>
          \A st \in {"sent", "opened", "clicked"} :
              campaign'.metrics[st] =
                  Cardinality({i \in 1..Len(messages') : messages'[i].status = st})]_vars

\* a refresh stored one sent, one opened and one clicked message
C8_Witness ==
    /\ result.op = "refresh"
    /\ campaign.metrics.sent = 1
    /\ campaign.metrics.opened = 1
    /\ campaign.metrics.clicked = 1

C10_AtMostOneWinner == Cardinality(Winners(variants)) <= 1

\* a variant was generated for a campaign that has a crowned winner with
\* clicks, and the new variant has no message
C10_Witness ==
    /\ DOMAIN variants = Labels
    /\ \A i \in Ids : messages[i].variant # "V3"
    /\ \E l \in Winners(variants) : variants[l].metrics.clicked > 0

\* C11 (draft guard): send_pending_messages(force=False) on a draft campaign
\* raises ValueError and leaves the campaign, every message, the audit
\* log and the provider calls as they were.
C11_DraftGuard ==
    [][(campaign.status = "draft" /\ SendStart(FALSE)) =>
          /\ result'.op = "send" /\ result'.outcome = "ValueError"
          /\ UNCHANGED <<campaign, messages, logs, providerCalls, notifications,
                         pc, batch>>]_vars

\* the guard refused a draft campaign that has a pending message
C11_Witness ==
    /\ result.op = "send"
    /\ result.outcome = "ValueError"
    /\ campaign.status = "draft"
    /\ \E i \in Ids : messages[i].status = "pending"

C13_EndToEnd ==
    (/\ pc = "idle"
     /\ campaign.status = "draft"
     /\ campaign.channels["email"] /\ campaign.channels["whatsapp"]
     /\ messages = <<>>) =>
        LET start == [messages |-> messages, logs |-> logs, created |-> 0, raised |-> FALSE]
            built == BuildOne(start, BuildJob(<<"c2">>, EmailOnly, NoVariant))
        IN /\ ~built.raised
           /\ built.created = 1
           /\ Len(built.messages) = 1
           /\ built.messages[1].customer = "c2"
           /\ built.messages[1].channel = "email"
           /\ built.messages[1].content = <<"Hi ", "Alice">>
           /\ built.messages[1].status = "pending"
           /\ SelectedIn(built.messages) = <<1>>

\* C14 (finalization): at the end of a send pass that selected a message,
\* the campaign is failed or completed exactly when no message is pending
\* or scheduled (failed when the pass counted a failure, completed
\* otherwise), and running when some message is.
C14_Finalization ==
    [][SendFinish =>
          LET remaining == {i \in 1..Len(messages') : messages'[i].status \in PendingStatuses}
          IN campaign'.status =
                IF remaining # {} THEN "running"
                ELSE IF counts.failed > 0 THEN "failed" ELSE "completed"]_vars

\* a pass with one success and one failure left nothing pending and the
\* campaign failed
C14_Witness ==
    /\ pc = "idle"
    /\ result.op = "send" /\ result.outcome = "ok"
    /\ result.sent = 1 /\ result.failed = 1
    /\ campaign.status = "failed"
    /\ \A i \in Ids : messages[i].status \notin PendingStatuses

\* no message of the campaign is pending or scheduled
NonePending == \A i \in Ids : messages[i].status \notin PendingStatuses

\* C15 as stated (empty run is a no-op): whenever no message is pending or
\* scheduled, send_pending_messages returns zero counts and changes nothing.
C15_EmptyRunAlwaysReturns ==
    [][\A force \in BOOLEAN : (NonePending /\ SendStart(force)) =>
          /\ result' = [NoResult EXCEPT !.op = "send", !.outcome = "ok"]
          /\ UNCHANGED <<campaign, messages, logs, notifications, providerCalls>>]_vars

\* C15 amended: when no message is pending or scheduled and the draft guard
\* does not apply (the campaign is not a draft, or force is set),
\* send_pending_messages returns zero counts and leaves the campaign, the
\* messages, the audit log, the notifications and the provider calls as
\* they were.
C15_EmptyRun ==
    [][\A force \in BOOLEAN :
          (NonePending /\ (force \/ campaign.status # "draft") /\ SendStart(force)) =>
              /\ result' = [NoResult EXCEPT !.op = "send", !.outcome = "ok"]
              /\ UNCHANGED <<campaign, messages, logs, notifications, providerCalls>>]_vars

\* an empty run on a completed campaign whose messages are all settled
C15_Witness ==
    /\ pc = "idle"
    /\ result = [NoResult EXCEPT !.op = "send", !.outcome = "ok"]
    /\ messages # <<>>
    /\ NonePending
    /\ campaign.status = "completed"

\* messages a pass has counted or still has to process
PassTotal == counts.sent + counts.failed + Len(batch)

\* C16 (failure isolation): a pass takes every message that is pending or
\* scheduled when it selects its batch, each once; it dispatches the head
\* of the batch and goes on to the next message whatever the outcome,
\* counting one success or one failure each time; it ends only when the
\* batch is empty, and the counts it returns add up to the batch's size.
C16_FailureIsolation ==
    [][/\ (pc = "idle" /\ pc' = "loop") =>
            /\ batch' = SeqOfSet({i \in 1..Len(messages') :
                                     messages'[i].status \in PendingStatuses})
            /\ counts' = [sent |-> 0, failed |-> 0]
       /\ \A i \in 1..Len(batch), j \in 1..Len(batch) : batch[i] = batch[j] => i = j
       /\ (pc = "loop" /\ batch # <<>>) =>
            /\ pc' = "dispatch"
            /\ batch' = batch
            /\ messages'[Head(batch)].status = "sending"
       /\ pc = "dispatch" =>
            /\ pc' = "loop"
            /\ batch' = Tail(batch)
            /\ PassTotal' = PassTotal
            /\ messages'[Head(batch)].status \in {"sent", "pending", "failed"}
       /\ (pc = "loop" /\ pc' # "dispatch") =>
            /\ batch = <<>>
            /\ (result'.op = "send" /\ result'.outcome = "ok") =>
                  (result'.sent = counts.sent /\ result'.failed = counts.failed)]_vars

\* a pass over three messages went on after the first one failed
C16_Witness ==
    /\ pc = "idle"
    /\ result.op = "send" /\ result.outcome = "ok"
    /\ result.sent = 2 /\ result.failed = 1
    /\ messages[1].last_error # ""

\* C17 (notification isolation): whatever the notification service does
\* during finalization, a send pass returns its counts, and a pass run by
\* the pipeline returns to it.
C17_NotificationIsolation ==
    [][SendFinish =>
          IF call.op = "exec" THEN pc' = "aggregate"
          ELSE /\ result'.outcome = "ok"
               /\ result'.sent = counts.sent
               /\ result'.failed = counts.failed]_vars

\* C18 (pipeline rejections): a dispatch of a campaign without a linked
\* product, or whose audience is empty, ends with CampaignExecutionError,
\* starts no send, hands nothing to a provider and leaves the campaign
\* status and the messages as they were.
C18_PipelineRejections ==
    [][\A has_product \in BOOLEAN, force \in BOOLEAN, audience \in ExecAudiences,
          job \in ExecChoices :
          ((~has_product \/ audience = <<>>)
              /\ Dispatch(has_product, TRUE, force, audience, job[1], job[2])) =>
                /\ result'.op = "exec"
                /\ result'.outcome = "CampaignExecutionError"
                /\ pc' = "idle"
                /\ campaign'.status = campaign.status
                /\ messages' = messages
                /\ providerCalls' = providerCalls]_vars

\* a dispatch of a scheduled campaign with a pending message was rejected
\* and nothing has been handed to a provider
C18_Witness ==
    /\ result.op = "exec"
    /\ result.outcome = "CampaignExecutionError"
    /\ campaign.status = "scheduled"
    /\ \E i \in Ids : messages[i].status = "pending"
    /\ providerCalls = {}


\* the admissions of the limiter that fall in the 60 seconds starting at time a
AdmittedFrom(a) ==
    {j \in 1..Len(limiter.admitted) :
        limiter.admitted[j] >= a /\ limiter.admitted[j] < a + Window}

\* C19: over any sequence of wait_for_slot calls, the calls admitted within
\* any interval of 60 seconds number at most the limiter's budget.
C19_RateBound ==
    \A i \in 1..Len(limiter.admitted) :
        Cardinality(AdmittedFrom(limiter.admitted[i])) <= limiter.per_minute

\* C20: whatever budget the constructor was given, a budget below 1 counts
\* as 1, every wait_for_slot call can be made and returns, and it has slept
\* for at most one window of 60 seconds.
C20_LimiterReturns ==
    /\ limiter.per_minute = (IF limiter.budget < 1 THEN 1 ELSE limiter.budget)
    /\ limiter.slept \in 0..Window
    /\ Len(limiter.admitted) < MaxAdmits =>
          \A d \in Advances : ENABLED WaitForSlot(d)

\* a limiter built with a negative budget has slept a whole window
C20_Witness ==
    /\ limiter.budget < 0
    /\ limiter.slept = Window
    /\ Len(limiter.admitted) = 2


\* C21 (fallback spawn): when a dispatch fails terminally on a message whose
\* fallback_channels list is not empty (the 'Fallback scheduled' entry is
\* written), the table afterwards holds a pending message for the same
\* customer on the first fallback channel, with the failed message's
\* content, the rest of its list, and fallback_of naming it -- also when a
\* row for that customer and channel existed before.
C21_FallbackSpawn ==
    [][(/\ SendOutcome
        /\ messages'[Head(batch)].status = "failed"
        /\ messages[Head(batch)].fallback_channels # <<>>) =>
          LET id == Head(batch)
              failed == messages[id]
          IN /\ LogRow("Fallback scheduled", id, Head(failed.fallback_channels))
                    \in BagToSet(logs')
             /\ \E j \in 1..Len(messages') :
                   /\ messages'[j].customer = failed.customer
                   /\ messages'[j].channel = Head(failed.fallback_channels)
                   /\ messages'[j].status = "pending"
                   /\ messages'[j].content = failed.content
                   /\ messages'[j].fallback_channels = Tail(failed.fallback_channels)
                   /\ messages'[j].fallback_of = id]_vars


\* C22 (no retry within a pass): while a send_pending_messages call runs,
\* nothing joins its batch (neither a message a failure reverted to pending
\* nor a fallback spawned meanwhile), the batch names no message twice, the
\* message just dispatched leaves it, and attempts change only by the one
\* increment at the head of the loop body; so a call dispatches a message at
\* most once and only a later call dispatches it again.
C22_NoRetryWithinPass ==
    [][/\ pc \in {"loop", "dispatch"} =>
            \A k \in 1..Len(batch') : Contains(batch, batch'[k])
       /\ \A i \in 1..Len(batch), j \in 1..Len(batch) : batch[i] = batch[j] => i = j
       /\ pc = "dispatch" =>
            /\ ~Contains(batch', Head(batch))
            /\ \A j \in (Len(messages) + 1)..Len(messages') : ~Contains(batch', j)
       /\ \A i \in Ids : messages'[i].attempts # messages[i].attempts =>
            /\ pc = "loop" /\ batch # <<>> /\ i = Head(batch)
            /\ messages'[i].attempts = messages[i].attempts + 1]_vars

\* a message was reverted to pending by one call and exhausted by the next,
\* and the fallback spawned then is being dispatched by a third call
C22_Witness ==
    \E i \in Ids, j \in Ids :
        /\ messages[i].status = "failed"
        /\ messages[i].attempts = 2
        /\ messages[j].fallback_of = i
        /\ messages[j].status = "sending"
        /\ pc = "dispatch"


\* C23 (FIFO dispatch): rows are numbered in the order of their creation;
\* the batch of a call is in increasing order, the message a call marks as
\* sending is the oldest one left in its batch, and where build_messages is
\* called its upsert leaves every existing row at its position.
C23_FifoDispatch ==
    [][/\ \A k \in 1..Len(batch'), l \in 1..Len(batch') : k < l => batch'[k] < batch'[l]
       /\ \A i \in Ids :
            (messages'[i].status = "sending" /\ messages[i].status # "sending") =>
                /\ batch # <<>> /\ i = Head(batch)
                /\ \A k \in 1..Len(batch) : i <= batch[k]
       /\ (pc = "idle" /\ result'.op = "build") =>
            \A job \in BuildChoices :
                LET table == Materialize(messages, job[1], job[2], NoVariant)
                IN /\ Len(table) >= Len(messages)
                   /\ \A i \in Ids : /\ table[i].customer = messages[i].customer
                                      /\ table[i].channel = messages[i].channel]_vars

\* of three selected messages the oldest has been dispatched, the second is
\* being dispatched and the newest waits
C23_Witness ==
    /\ pc = "dispatch"
    /\ Len(messages) = 3
    /\ messages[1].attempts = 1 /\ messages[1].status # "sending"
    /\ messages[2].status = "sending"
    /\ batch = <<2, 3>>
    /\ messages[3].status = "pending" /\ messages[3].attempts = 0


\* C24 (terminal campaign statuses): once the campaign is completed or
\* failed, no build_messages, send_pending_messages, refresh_metrics or
\* dispatch call changes its status.
C24_TerminalStatuses ==
    [][campaign.status \in {"completed", "failed"} =>
          campaign'.status = campaign.status]_vars

\* a dispatch ran to its end on a completed campaign: its build wrote
\* nothing and its send selected nothing
C24_Witness ==
    /\ campaign.status = "completed"
    /\ result.op = "exec"
    /\ result.outcome = "ok"
    /\ messages # <<>>
    /\ PreparedLogs > 0


\* C25 (no message stranded in sending): whenever no send_pending_messages
\* call is in progress, whether the last one returned or was left by an
\* exception raised after a message was marked sending, no message has
\* status sending.
C25_NoneStrandedInSending ==
    pc = "idle" => \A i \in Ids : messages[i].status # "sending"


\* C26 (metrics frame): refresh_metrics, called on its own or at the end of
\* a send pass, leaves every entry of the metrics map other than sent,
\* opened and clicked (revenue, for one) at its value and adds or drops no
\* entry; called on its own it modifies no message.
C26_MetricsFrame ==
    [][(RefreshMetrics \/ SendFinish) =>
          /\ DOMAIN campaign'.metrics = DOMAIN campaign.metrics
          /\ \A k \in DOMAIN campaign.metrics \ {"sent", "opened", "clicked"} :
                campaign'.metrics[k] = campaign.metrics[k]
          /\ messages' = messages]_vars

\* a refresh replaced the sent and clicked entries of a map whose revenue
\* entry is not the default
C26_Witness ==
    /\ result.op = "refresh"
    /\ campaign.metrics.revenue = 7
    /\ campaign.metrics.sent = 1
    /\ campaign.metrics.clicked = 1


\* C27 (variant metrics consistency): right after update_campaign_metrics
\* has run, every variant of the campaign, one without any message
\* included, has stored sent, opened and clicked metrics equal to the
\* numbers of its messages in those statuses.
C27_VariantMetricsConsistency ==
    [][UpdateCampaignMetrics =>
          \A l \in DOMAIN variants' : \A st \in {"sent", "opened", "clicked"} :
              variants'[l].metrics[st] = VariantCount(messages', l, st)]_vars


\* C28 (window counter): the limiter's counter is always between 0 and its
\* budget; a wait_for_slot call that finds the counter below the budget in
\* a window that has not expired returns without sleeping and adds one to
\* the counter; a call that finds the counter at the budget sleeps for what
\* is left of the window (nothing, if the window has expired) and then
\* starts a new window with the counter at 1.
C28_WindowCounter ==
    [][\A d \in Advances : WaitForSlot(d) =>
          LET t == now + d
              elapsed == t - limiter.window_start
              left == IF elapsed < Window THEN Window - elapsed ELSE 0
          IN /\ limiter.sent \in 0..limiter.per_minute
             /\ limiter'.sent \in 0..limiter.per_minute
             /\ (elapsed < Window /\ limiter.sent < limiter.per_minute) =>
                   /\ limiter'.slept = 0 /\ now' = t
                   /\ limiter'.sent = limiter.sent + 1
                   /\ limiter'.window_start = limiter.window_start
             /\ limiter.sent = limiter.per_minute =>
                   /\ limiter'.slept = left /\ now' = t + left
                   /\ limiter'.window_start = now'
                   /\ limiter'.sent = 1]_vars

\* a limiter of budget 2 admitted two calls at once and the third after
\* sleeping out the 59 seconds left of its window
C28_Witness ==
    /\ limiter.budget = 2
    /\ limiter.sent = 1
    /\ limiter.slept = 59
    /\ limiter.admitted = <<0, 0, 60>>


\* every send on the channel: <<orchestrator, position in its admissions>>
ChannelSends ==
    {p \in (1..Len(limiters)) \X (1..MaxAdmits + 1) : p[2] <= Len(limiters[p[1]].admitted)}

\* C29 (shared per-channel budget): whatever campaigns are dispatched, the
\* sends on one channel within one window number at most the channel's
\* budget; in particular those admitted at one and the same instant do.
C29_SharedChannelBudget ==
    \A p \in ChannelSends :
        Cardinality({q \in ChannelSends :
                        limiters[q[1]].admitted[q[2]] = limiters[p[1]].admitted[p[2]]})
            <= PerMinute(limiter.budget)


\* the calls that have marked message i as sending and not yet recorded
\* the outcome of its dispatch
Dispatching(i) ==
    {w \in Workers : workers[w].pc = "dispatch" /\ Head(workers[w].batch) = i}

\* C30 (no concurrent double dispatch): however two send_pending_messages
\* calls of one campaign interleave, no message is held as sending by both
\* at once, and the attempts of each message equal the number of times it
\* was dispatched, a dispatch under way included.
C30_NoDoubleDispatch ==
    \A i \in 1..Len(dispatched) :
        /\ Cardinality(Dispatching(i)) <= 1
        /\ messages[i].attempts = dispatched[i] + Cardinality(Dispatching(i))


\* C31 (atomic upsert under concurrency): however the writes of calls that
\* run side by side interleave, a customer has at most one row per channel:
\* where two of them write for the same customer and channel, exactly one
\* row exists afterwards.
C31_AtomicUpsert ==
    \A c \in Customers, ch \in Channels : Cardinality(Matching(messages, c, ch)) <= 1


\* longest customer list the slicing is checked on
MaxAudience == 5

\* customer lists of every length up to MaxAudience, customers numbered
BucketLists == {[i \in 1..k |-> i] : k \in 0..MaxAudience}

\* customers[idx::n] for idx = 0..n-1 splits the list round-robin: the
\* customer at index i (from 0) is in bucket i mod n and in no other, and
\* two buckets differ in size by at most one
RoundRobin(list, n) ==
    /\ \A i \in 1..Len(list), idx \in 0..(n - 1) :
          Contains(Bucket(list, idx, n), list[i]) <=> idx = (i - 1) % n
    /\ \A a \in 0..(n - 1), b \in 0..(n - 1) :
          Len(Bucket(list, a, n)) - Len(Bucket(list, b, n)) \in {-1, 0, 1}

\* the slicing is round-robin for every variant count dispatch can ask for
\* and every list up to MaxAudience
SlicesRoundRobin ==
    \A n \in 1..A_B_TEST_VARIANTS, list \in BucketLists : RoundRobin(list, n)

\* C32 (round-robin bucketing): a dispatch that has N >= 1 variants and K
\* customers hands the customer at index i to the build of variant i mod N
\* and to no other, bucket sizes differ by at most one, and a variant whose
\* bucket is empty gets no build_messages call and no 'Messages prepared'
\* row.
C32_RoundRobinBucketing ==
    [][\A force \in BOOLEAN, audience \in ExecAudiences, job \in ExecChoices :
          (/\ pc = "idle"
           /\ result'.op = "exec"
           /\ job[2] # <<>>
           /\ ExecRun(force, audience, job[1], job[2])) =>
              LET payloads == job[2]
                  N == Len(payloads)
                  jobs == BuildJobs(audience, job[1], payloads)
                  filled == {idx \in 0..(N - 1) : Bucket(audience, idx, N) # <<>>}
              IN /\ SlicesRoundRobin
                 /\ RoundRobin(audience, N)
                 /\ Len(jobs) = Cardinality(filled)
                 /\ \A j \in 1..Len(jobs) :
                       \E idx \in filled :
                           /\ jobs[j].audience = Bucket(audience, idx, N)
                           /\ jobs[j].variant = payloads[idx + 1]
                 /\ \A i \in 1..Len(audience) :
                       Cardinality({j \in 1..Len(jobs) :
                                       Contains(jobs[j].audience, audience[i])}) = 1
                 /\ PreparedLogs' - PreparedLogs <= Cardinality(filled)
                 /\ result'.outcome = "ok" =>
                       PreparedLogs' - PreparedLogs = Cardinality(filled)]_vars

\* a dispatch with three variants and two customers ran its builds: two
\* 'Messages prepared' rows, none for the third variant
C32_Witness ==
    /\ result.op = "exec"
    /\ result.outcome = "ok"
    /\ DOMAIN variants = Labels
    /\ PreparedLogs = 2


\* position of the first occurrence of x in s, Len(s) + 1 when absent
FirstIndex(s, x) ==
    IF Contains(s, x) THEN CHOOSE i \in 1..Len(s) : s[i] = x /\ \A j \in 1..(i - 1) : s[j] # x
    ELSE Len(s) + 1

\* the channels a customer can be reached on: whatsapp and sms need a phone
\* number
Receivable(customer) ==
    {ch \in Channels : ch \in PhoneChannels => customers[customer].phone_number}

\* C33 (channel resolution): the resolved list of a customer has no
\* duplicates, holds exactly the enabled channels the customer can receive,
\* lists the preferred ones first in declared order and the other enabled
\* ones after them in the campaign's order; a built row's fallback_channels
\* is that list without the row's own channel, in the same order.
C33_ChannelResolution ==
    /\ \A c \in Customers :
          LET resolved == ResolveChannels(c)
              preferred == customers[c].preferred_channels
              rank(ch) == IF Contains(preferred, ch) THEN FirstIndex(preferred, ch)
                          ELSE Len(preferred) + FirstIndex(ChannelOrder, ch)
          IN /\ \A i \in 1..Len(resolved), j \in 1..Len(resolved) :
                   i < j => rank(resolved[i]) < rank(resolved[j])
             /\ {resolved[i] : i \in 1..Len(resolved)} =
                   {ch \in Receivable(c) : campaign.channels[ch]}
    /\ \A i \in Ids :
          messages[i].fallback_of = 0 =>
              LET resolved == ResolveChannels(messages[i].customer)
                  others == {k \in 1..Len(resolved) : resolved[k] # messages[i].channel}
                  at == SeqOfSet(others)
              IN messages[i].fallback_channels = [k \in 1..Len(at) |-> resolved[at[k]]]

\* a built email row of a customer who prefers sms: sms comes before the
\* campaign's own order in the resolved list and in the row's fallbacks
C33_Witness ==
    /\ ResolveChannels("c1") = <<"sms", "email", "whatsapp">>
    /\ \E i \in Ids :
          /\ messages[i].customer = "c1"
          /\ messages[i].channel = "email"
          /\ messages[i].fallback_of = 0
          /\ messages[i].fallback_channels = <<"sms", "whatsapp">>


\* C34 (best-effort variants): a dispatch whose variant generation failed
\* (no variants) does not fail for it: it builds the whole audience with the
\* base content, writing the 'Messages prepared' row, and goes on to
\* send_pending_messages.
C34_BestEffortVariants ==
    [][\A force \in BOOLEAN, audience \in ExecAudiences, content \in {EmailOnly, Full} :
          (/\ pc = "idle"
           /\ result'.op = "exec"
           /\ ExecRun(force, audience, content, <<>>)) =>
              /\ result'.outcome # "TypeError"
              /\ PreparedLogs' = PreparedLogs + 1
              /\ \A i \in 1..Len(messages') :
                    (i > Len(messages) \/ messages'[i] # messages[i]) =>
                        messages'[i].variant = NoLabel]_vars


\* ------------------------------------------- the FastAPI campaign service
\* dispatch_campaign calls explored per behaviour
MaxDispatches == 2

\* the activity row dispatch_campaign writes, held in the bag of audit rows
DispatchedLog == LogRow("Campaign dispatched", 0, "none")

\* the CampaignMessage row dispatch_campaign adds for a customer and channel
AppMessage(customer, channel) ==
    [customer |-> customer, channel |-> channel,
     content |-> <<"Hello ", FirstName(customer), ", check out our ", "{{product}}", "!">>,
     status |-> "sent"]

\* the rows of one dispatch_campaign call: customers in query order, for each
\* the channels mapped to true in the campaign's order
AppMessages ==
    LET active == SelectSeq(ChannelOrder, LAMBDA ch : campaign.channels[ch])
        n == Len(active)
    IN [k \in 1..(Len(CustomerOrder) * n) |->
           AppMessage(CustomerOrder[((k - 1) \div n) + 1], active[((k - 1) % n) + 1])]

\* dispatch_campaign on a campaign without a product: ValueError
DispatchCampaignRejected ==
    /\ result' = [NoResult EXCEPT !.op = "dispatch_campaign", !.outcome = "ValueError"]
    /\ result' # result
    /\ UNCHANGED <<campaign, customers, maxRetries, messages, logs, pc, batch, counts,
                   providerCalls, notifications, variants, call>>

\* dispatch_campaign(campaign, force) on a campaign with a product: force is
\* not read and the status is not tested
DispatchCampaign(force) ==
    /\ CopiesIn(DispatchedLog, logs) < MaxDispatches
    /\ LET added == AppMessages
           message_count == Len(added)
       IN /\ messages' = messages \o added
          /\ campaign' = [campaign EXCEPT !.status = "completed",
                                          !.metrics.sent = @ + message_count]
          /\ logs' = WithLogs(logs, {DispatchedLog})
          /\ result' = [NoResult EXCEPT !.op = "dispatch_campaign", !.outcome = "ok",
                                        !.sent = message_count]
    /\ UNCHANGED <<customers, maxRetries, pc, batch, counts, providerCalls,
                   notifications, variants, call>>

\* a campaign of the FastAPI service in any status, no message yet
InitApp ==
    /\ campaign \in [status : CampaignStatuses,
                     channels : ChannelMapChoices,
                     metrics : {DefaultMetrics}]
    /\ customers \in {[c \in Customers |->
                          [phone_number |-> (c = "c1"),
                           preferred_channels |-> p]] : p \in PrefChoices}
    /\ maxRetries = 0
    /\ messages = <<>>
    /\ logs = EmptyBag
    /\ pc = "idle"
    /\ batch = <<>>
    /\ counts = [sent |-> 0, failed |-> 0]
    /\ providerCalls = {}
    /\ notifications = 0
    /\ variants = <<>>
    /\ call = NoCall
    /\ result = NoResult
    /\ limiter = NewLimiter(1, 0)
    /\ now = 0
    /\ limiters = <<>>
    /\ workers = NoWorkers
    /\ dispatched = <<>>
    /\ campaigns = NoCampaigns
    /\ automation = NoAutomation

NextApp ==
    \/ /\ DispatchCampaignRejected
       /\ UNCHANGED <<limiterVars, workerVars, automationVars>>
    \/ /\ \E force \in BOOLEAN : DispatchCampaign(force)
       /\ UNCHANGED <<limiterVars, workerVars, automationVars>>

SpecApp == InitApp /\ [][NextApp]_vars

\* C35 (draft guard in the FastAPI service): dispatch_campaign with
\* force=False on a draft campaign creates no message and changes no status.
C35_AppDraftGuard ==
    [][(campaign.status = "draft" /\ DispatchCampaign(FALSE)) =>
          /\ messages' = messages
          /\ campaign'.status = campaign.status]_vars


\* a message that has reached sent, and the feedback statuses after it
Delivered == {"sent", "opened", "clicked"}

\* C36 (no duplicate delivery): a row that has reached sent stays delivered
\* for the same customer and channel through every later step of
\* send_pending_messages and dispatch, and no dispatch step sends to a
\* customer and channel that a delivered row already covers.
C36_NoDuplicateDelivery ==
    [][/\ \A i \in Ids :
             messages[i].status \in Delivered =>
                 /\ i <= Len(messages')
                 /\ messages'[i].status \in Delivered
                 /\ messages'[i].customer = messages[i].customer
                 /\ messages'[i].channel = messages[i].channel
                 /\ messages'[i].attempts = messages[i].attempts
       /\ (pc = "dispatch" /\ pc' = "loop") =>
             \A k \in Ids :
                 (/\ messages[k].customer = messages[Head(batch)].customer
                  /\ messages[k].channel = messages[Head(batch)].channel) =>
                     messages[k].status \notin Delivered]_vars

\* a send is dispatching a row of a customer who has a delivered row on
\* another channel, after a fallback was scheduled onto that delivered
\* channel
C36_Witness ==
    /\ pc = "dispatch"
    /\ \E k \in Ids :
          /\ messages[k].status \in Delivered
          /\ messages[k].customer = messages[Head(batch)].customer
          /\ \E id \in Ids :
                BagIn(LogRow("Fallback scheduled", id, messages[k].channel), logs)


\* ------------------------------------------------- sending again and again
\* send_pending_messages called over and over, nothing else touching the
\* campaign
NextDrain ==
    \/ /\ \E force \in BOOLEAN : SendStart(force)
       /\ UNCHANGED <<limiterVars, workerVars, automationVars>>
    \/ /\ SendMark
       /\ UNCHANGED <<limiterVars, workerVars, automationVars>>
    \/ /\ SendOutcome
       /\ UNCHANGED <<limiterVars, workerVars, automationVars>>
    \/ /\ SendFinish
       /\ UNCHANGED <<limiterVars, workerVars, automationVars>>

\* a call that has started runs to its end, and another call follows
SpecDrain == Init /\ [][NextDrain]_vars /\ WF_vars(NextDrain)

\* nothing is left to send or in flight and the campaign is finalized
Drained ==
    /\ \A i \in Ids : messages[i].status \notin PendingStatuses \cup {"sending"}
    /\ campaign.status \in {"completed", "failed"}

\* C37 as stated (eventual drain): repeated sends on a non-draft campaign
\* whose messages have max_attempts >= 1 lead to a state with no message
\* pending, scheduled or sending and the campaign completed or failed.
C37_EventualDrain ==
    (campaign.status # "draft" /\ maxRetries >= 1) ~> Drained

\* C37 amended: the same, for a campaign that has a pending or scheduled
\* message; a campaign without one is returned from before the status is
\* touched.
C37_EventualDrainOfPending ==
    (/\ campaign.status # "draft"
     /\ maxRetries >= 1
     /\ \E i \in Ids : messages[i].status \in PendingStatuses) ~> Drained

\* drained with every provider call failed: a row used up its attempts
C37_Witness ==
    /\ Drained
    /\ pc = "idle"
    /\ maxRetries >= 1
    /\ campaign.status = "failed"
    /\ Ids # {}
    /\ \A i \in Ids : /\ messages[i].status = "failed"
                       /\ messages[i].attempts = messages[i].max_attempts


\* C38 (completed means nothing failed): a campaign whose status is
\* completed has no message in status failed.
C38_CompletedMeansNoneFailed ==
    campaign.status = "completed" => \A i \in Ids : messages[i].status # "failed"


\* ------------------------------------------------- the automated senders
\* AutomationService._handle_send_campaign and the send_multi_channel_campaigns
\* command run the same loop over one user's campaigns; they differ in the
\* default of limit.
CampaignIds == {"k1", "k2", "k3"}

\* Campaign.scheduled_at, in time units relative to timezone.now() at the
\* moment of the query: negative is past, positive is future
ScheduledAts == {-2, -1, 1}

\* rule.config's default limit
RuleLimit == 2
\* the command's default --limit
CommandLimit == 5

Limits == {1, RuleLimit, CommandLimit}

\* how executor.dispatch can end: its summary, a CampaignExecutionError
\* (no product, supplier failure, no customer, draft guard), the TypeError
\* of build_messages, or the error notify_campaign_status raises out of
\* _finalize
DispatchResults == {"ok", "CampaignExecutionError", "TypeError", "NotifyError"}

\* status__in=[scheduled, running], scheduled_at__lte=timezone.now()
Eligible(rows) ==
    {k \in CampaignIds : /\ rows[k].status \in {"scheduled", "running"}
                         /\ rows[k].scheduled_at <= 0}

\* .order_by('scheduled_at'): the orders the database may return, equal
\* times in either order
Orderings(S, rows) ==
    {q \in [1..Cardinality(S) -> S] :
        /\ \A i \in 1..Cardinality(S), j \in 1..Cardinality(S) :
              /\ i # j => q[i] # q[j]
              /\ i < j => rows[q[i]].scheduled_at <= rows[q[j]].scheduled_at}

\* [:limit]
Take(q, limit) == SubSeq(q, 1, IF limit < Len(q) THEN limit ELSE Len(q))

\* the query of the loop, evaluated once when the loop starts
AutomationStart(limit) ==
    /\ automation.pc = "idle"
    /\ \E q \in Orderings(Eligible(campaigns), campaigns) :
          LET taken == Take(q, limit)
          IN automation' = [pc |-> "loop", queue |-> taken,
                            selected |-> {taken[i] : i \in 1..Len(taken)},
                            done |-> {}, raised |-> FALSE]
    /\ UNCHANGED campaigns

\* one turn of the loop: executor.dispatch(force) on the next campaign.  A
\* CampaignExecutionError is caught and the loop continues; any other
\* exception leaves the loop and the handler.
AutomationDispatch ==
    /\ automation.pc = "loop"
    /\ automation.queue # <<>>
    /\ LET k == Head(automation.queue)
           visited == [automation EXCEPT !.done = @ \cup {k}]
           goes_on == [visited EXCEPT !.queue = Tail(@)]
           leaves == [visited EXCEPT !.pc = "idle", !.queue = <<>>, !.raised = TRUE]
       IN \E outcome \in DispatchResults :
            CASE outcome = "ok" ->
                    /\ \E status \in {"running", "completed", "failed"} :
                          campaigns' = [campaigns EXCEPT ![k].status = status]
                    /\ automation' = goes_on
              [] outcome = "CampaignExecutionError" ->
                    /\ UNCHANGED campaigns
                    /\ automation' = goes_on
              [] outcome = "TypeError" ->
                    /\ UNCHANGED campaigns
                    /\ automation' = leaves
              [] outcome = "NotifyError" ->
                    /\ \E status \in {"completed", "failed"} :
                          campaigns' = [campaigns EXCEPT ![k].status = status]
                    /\ automation' = leaves

\* the loop has run out of campaigns
AutomationFinish ==
    /\ automation.pc = "loop"
    /\ automation.queue = <<>>
    /\ automation' = [automation EXCEPT !.pc = "idle"]
    /\ UNCHANGED campaigns

\* three campaigns of one user in any status, scheduled before or after now
InitAutomation ==
    /\ campaigns \in [CampaignIds -> [status : CampaignStatuses,
                                      scheduled_at : ScheduledAts]]
    /\ automation = NoAutomation
    /\ campaign = [status |-> "draft",
                   channels |-> [ch \in Channels |-> TRUE],
                   metrics |-> DefaultMetrics]
    /\ customers = [c \in Customers |-> [phone_number |-> (c = "c1"),
                                         preferred_channels |-> <<>>]]
    /\ maxRetries = 0
    /\ messages = <<>>
    /\ logs = EmptyBag
    /\ pc = "idle"
    /\ batch = <<>>
    /\ counts = [sent |-> 0, failed |-> 0]
    /\ providerCalls = {}
    /\ notifications = 0
    /\ variants = <<>>
    /\ call = NoCall
    /\ result = NoResult
    /\ limiter = NewLimiter(1, 0)
    /\ now = 0
    /\ limiters = <<>>
    /\ workers = NoWorkers
    /\ dispatched = <<>>

NextAutomation ==
    \/ /\ \E limit \in Limits : AutomationStart(limit)
       /\ UNCHANGED <<campaign, customers, maxRetries, messages, logs, pc, batch, counts,
                      providerCalls, notifications, variants, call, result,
                      limiterVars, workerVars>>
    \/ /\ AutomationDispatch
       /\ UNCHANGED <<campaign, customers, maxRetries, messages, logs, pc, batch, counts,
                      providerCalls, notifications, variants, call, result,
                      limiterVars, workerVars>>
    \/ /\ AutomationFinish
       /\ UNCHANGED <<campaign, customers, maxRetries, messages, logs, pc, batch, counts,
                      providerCalls, notifications, variants, call, result,
                      limiterVars, workerVars>>

SpecAutomation == InitAutomation /\ [][NextAutomation]_vars

\* C39 (automated dispatch selection): the automated senders dispatch only
\* campaigns that are scheduled or running and due, and when the loop is
\* left every campaign it selected has been dispatched, whatever error the
\* pipeline raised on another one.
C39_AutomatedSelection ==
    [][/\ \A k \in automation'.done \ automation.done :
             /\ campaigns[k].status \in {"scheduled", "running"}
             /\ campaigns[k].scheduled_at <= 0
       /\ (automation.pc = "loop" /\ automation'.pc = "idle") =>
             automation'.selected \subseteq automation'.done]_vars

====
